---- MODULE Spec2Model ----
(***************************************************************************)
(* Hybrid retrieval engine of rag-demo: the filter evaluator               *)
(* (_evaluate_condition, apply_filters), the BM25 top-k search, reciprocal *)
(* rank fusion and the search_hybrid orchestrator with its fallbacks.      *)
(*                                                                         *)
(* The specifications share the variables:                                 *)
(*   SpecFilter   applies _evaluate_condition to one (meta, condition)     *)
(*   SpecRRF      applies reciprocal_rank_fusion to ranked lists           *)
(*   SpecTokenize applies tokenize to one text                             *)
(*   SpecBM25     applies BM25Index.search to one index, query and top_k   *)
(*   Spec         runs search_hybrid step by step against the vector port  *)
(*   SpecSession  runs several queries in a row against one index          *)
(*   SpecOverlap  runs the queries of two callers at once on one index     *)
(*   SpecRebuild  runs a query while index_all rebuilds the collection     *)
(*   SpecEmbed    is Spec with the attempts of _embed_with_retry spelled out   *)
(*   SpecConvert  applies convert_to_chromadb_where to one filters dict      *)
(*   SpecLive     is Spec with the running call always taking its next step *)
(*   SpecCorpus   runs search_hybrid on corpora of several sizes            *)
(*   SpecFusion   is SpecRRF and Spec side by side: the fuser called alone *)
(*                and the fuser called by search_hybrid                    *)
(***************************************************************************)
EXTENDS Integers, Sequences, FiniteSets

VARIABLES
    \* ---- SpecFilter -----------------------------------------------------
    meta,            \* metadata record handed to _evaluate_condition
    condition,       \* where-condition handed to _evaluate_condition
    verdict,         \* "unset", or the outcome: "True", "False", "TypeError"
    \* ---- SpecRRF --------------------------------------------------------
    result_lists,    \* argument result_lists of reciprocal_rank_fusion
    k,               \* argument k of reciprocal_rank_fusion
    fusedOut,        \* <<"unset">> or <<"ok", fused list>>
    \* ---- SpecTokenize ---------------------------------------------------
    text,            \* argument text of tokenize: a sequence of characters
    tokens,          \* <<"unset">> or <<"ok", token list>>
    \* ---- SpecBM25 -------------------------------------------------------
    bm_index,        \* the BM25Index object: its _doc_ids and its _bm25 table
    bm_query,        \* argument query of BM25Index.search
    bm_top_k,        \* argument top_k of BM25Index.search
    bm_results,      \* <<"unset">> or <<"ok", result list>>
    \* ---- Spec (search_hybrid) -------------------------------------------
    pc,              \* position of the running search_hybrid call
    documents,       \* bm25_index.documents, the corpus in insertion order
    scores,          \* self._bm25.get_scores(query): one score per document
    top_k,           \* argument top_k
    where,           \* argument where of the current (possibly re-run) frame
    where0,          \* argument where of the caller's call
    depth,           \* 0 in the caller's call, 1 inside the top-level re-run
    port_calls,      \* requests sent to collection.query, in order
    bm25_calls,      \* BM25Index.search calls, in order: top_k and output
    warnings,        \* logger.warning signals, in order
    dense_results,   \* result of search_dense in the current frame
    sparse_filtered, \* re-ranked post-filter list of the current frame
    sparse_results,  \* sparse list fed to fusion in the current frame
    fused,           \* output of reciprocal_rank_fusion in the current frame
    result,          \* list returned to the caller
    error,           \* exception that left search_hybrid, or "none"
    events,          \* what the call did to the outside, in program order
    \* ---- SpecSession ----------------------------------------------------
    calls_done,      \* queries completed since the index was built
    first_return,    \* <<>> or <<the first search_hybrid call that returned>>
    between,         \* queries with other arguments completed since that call
    \* ---- SpecOverlap ----------------------------------------------------
    frames,          \* the locals of the query each caller is running
    \* ---- SpecRebuild ----------------------------------------------------
    collection,      \* the persistent ChromaDB collection COLLECTION_NAME
    rebuild_pc,      \* position of a running index_all
    \* ---- SpecConvert ----------------------------------------------------
    filters,         \* argument filters of convert_to_chromadb_where
    converted,       \* <<"unset">> or <<"ok", the where clause returned>>
    \* ---- SpecEmbed ------------------------------------------------------
    embed_pc,        \* position of _embed_with_retry: idle, trying, returned (a list
                     \* with the embedding), returned_empty (the list []), raised
    attempt,         \* loop variable attempt of _embed_with_retry
    tries,           \* outcomes of the embeddings.create calls of this call, in order
    sleeps,          \* arguments of the time.sleep calls of this call, in order
    embed_for        \* depth of the search_hybrid frame the call was made for

filterVars == <<meta, condition, verdict>>
rrfVars    == <<result_lists, k, fusedOut>>
hybridVars == <<pc, documents, scores, top_k, where, where0, depth, port_calls, bm25_calls,
                warnings, dense_results, sparse_filtered, sparse_results,
                fused, result, error, events>>
sessionVars == <<calls_done, first_return, between, frames>>
storeVars  == <<collection, rebuild_pc>>
tokVars    == <<text, tokens>>
bmVars     == <<bm_index, bm_query, bm_top_k, bm_results>>
convVars   == <<filters, converted>>
retryVars  == <<embed_pc, attempt, tries, sleeps, embed_for>>
unitVars   == <<filterVars, rrfVars, tokVars, bmVars, convVars, retryVars>>
restVars   == <<unitVars, sessionVars, storeVars>>
vars       == <<hybridVars, restVars>>

(***************************************************************************)
(* Python values that occur in metadata and in filter targets.  A scalar   *)
(* is None, a bool or a str; strings are numbered by their position in     *)
(* StrTable, which is sorted as Python sorts str, so the numbers order as  *)
(* the strings do.  StrChars gives the characters of each of them.         *)
(***************************************************************************)
StrTable == <<"", "2023-06-01", "2024-01-15", "APAC", "E-4012", "E-4012,E-5001",
              "E-5001", "EU", "US", "billing", "networking", "v1.0", "v2.0">>

StrChars ==
    << <<>>,
       <<"2", "0", "2", "3", "-", "0", "6", "-", "0", "1">>,
       <<"2", "0", "2", "4", "-", "0", "1", "-", "1", "5">>,
       <<"A", "P", "A", "C">>,
       <<"E", "-", "4", "0", "1", "2">>,
       <<"E", "-", "4", "0", "1", "2", ",", "E", "-", "5", "0", "0", "1">>,
       <<"E", "-", "5", "0", "0", "1">>,
       <<"E", "U">>,
       <<"U", "S">>,
       <<"b", "i", "l", "l", "i", "n", "g">>,
       <<"n", "e", "t", "w", "o", "r", "k", "i", "n", "g">>,
       <<"v", "1", ".", "0">>,
       <<"v", "2", ".", "0">> >>

NoneV    == [t |-> "none", n |-> 0]
Bool(b)  == [t |-> "bool", n |-> IF b THEN 1 ELSE 0]
Str(s)   == [t |-> "str", n |-> CHOOSE i \in 1..Len(StrTable) : StrTable[i] = s]

\* a filter target: a scalar, or a list of scalars (for $in / $nin)
Scalar(v)    == [list |-> FALSE, v |-> v, items |-> <<>>]
ListOf(vs)   == [list |-> TRUE, v |-> NoneV, items |-> vs]

\* Python ==  between a metadata value and a target
PyEq(value, target) ==
    /\ ~target.list
    /\ value.t = target.v.t
    /\ value.n = target.v.n

\* Python <, <=, >, >= are defined between two str and between two bool
PyOrdered(value, target) ==
    /\ ~target.list
    /\ value.t = target.v.t
    /\ value.t \in {"str", "bool"}

\* Python  a in b  for two str: substring
PySubstr(a, b) ==
    LET x == StrChars[a.n]
        y == StrChars[b.n]
    IN  \E i \in 0..(Len(y) - Len(x)) : SubSeq(y, i + 1, i + Len(x)) = x

\* Python  value in target ; "TypeError" when target is no container
PyIn(value, target) ==
    IF target.list
    THEN IF \E i \in 1..Len(target.items) :
                 value.t = target.items[i].t /\ value.n = target.items[i].n
         THEN "True" ELSE "False"
    ELSE IF target.v.t = "str" /\ value.t = "str"
         THEN IF PySubstr(value, target.v) THEN "True" ELSE "False"
         ELSE "TypeError"

(***************************************************************************)
(* A where-condition is a Python dict: here the sequence of its entries in *)
(* insertion order.  An entry's value is a list of conditions ("list", for *)
(* $and / $or), a constraint dict of (op, target) pairs ("dict"), or a     *)
(* bare value ("bare").                                                     *)
(***************************************************************************)
Entry(key, kind, kids, ops, bare) ==
    [key |-> key, kind |-> kind, kids |-> kids, ops |-> ops, bare |-> bare]

Leaf(field, op, target) ==
    << Entry(field, "dict", <<>>, << [op |-> op, target |-> target] >>, Scalar(NoneV)) >>
BareLeaf(field, v)  == << Entry(field, "bare", <<>>, <<>>, Scalar(v)) >>
AndOf(kids)         == << Entry("$and", "list", kids, <<>>, Scalar(NoneV)) >>
OrOf(kids)          == << Entry("$or", "list", kids, <<>>, Scalar(NoneV)) >>

HasKey(cond, key)   == \E i \in 1..Len(cond) : cond[i].key = key
Lookup(cond, key)   == cond[CHOOSE i \in 1..Len(cond) : cond[i].key = key]

\* meta.get(field)
MetaGet(m, field)   == IF field \in DOMAIN m THEN m[field] ELSE NoneV

(***************************************************************************)
(* _evaluate_condition.  Outcomes: "True" / "False" (the returned bool) or *)
(* "TypeError" (the exception Python raises on an unordered comparison or  *)
(* on  in  applied to a non-container).  The code raises nothing else.     *)
(***************************************************************************)

\* lines 96-103: the four ordering branches, guarded by  value is not None
OrderCheck(value, op, target) ==
    IF value.t = "none" THEN "False"
    ELSE IF ~PyOrdered(value, target) THEN "TypeError"
    ELSE IF \/ op = "$gt"  /\ value.n >  target.v.n
            \/ op = "$gte" /\ value.n >= target.v.n
            \/ op = "$lt"  /\ value.n <  target.v.n
            \/ op = "$lte" /\ value.n <= target.v.n
         THEN "True" ELSE "False"

\* lines 104-107: the two membership branches
MemberCheck(value, op, target) ==
    LET isin == PyIn(value, target)
    IN  IF isin = "TypeError" THEN "TypeError"
        ELSE IF op = "$in" THEN isin
        ELSE IF isin = "True" THEN "False" ELSE "True"

\* one pass of the if-chain of lines 92-107 for a single (op, target):
\* "False" when a branch returns False, "True" when no branch does (an
\* operator that no branch names falls through the whole chain)
OpCheck(value, op, target) ==
    IF op = "$eq" THEN (IF ~PyEq(value, target) THEN "False" ELSE "True")
    ELSE IF op = "$ne" THEN (IF PyEq(value, target) THEN "False" ELSE "True")
    ELSE IF op \in {"$gt", "$gte", "$lt", "$lte"} THEN OrderCheck(value, op, target)
    ELSE IF op \in {"$in", "$nin"} THEN MemberCheck(value, op, target)
    ELSE "True"

\* for op, target in constraint.items(): ...   (from the i-th pair on)
RECURSIVE ConstraintLoop(_, _, _)
ConstraintLoop(value, ops, i) ==
    IF i > Len(ops) THEN "True"
    ELSE LET r == OpCheck(value, ops[i].op, ops[i].target)
         IN  IF r = "True" THEN ConstraintLoop(value, ops, i + 1) ELSE r

RECURSIVE _evaluate_condition(_, _)
RECURSIVE AllFrom(_, _, _)
RECURSIVE AnyFrom(_, _, _)
RECURSIVE FieldLoop(_, _, _)

\* all(_evaluate_condition(meta, c) for c in kids), from the i-th child on
AllFrom(m, kids, i) ==
    IF i > Len(kids) THEN "True"
    ELSE LET r == _evaluate_condition(m, kids[i])
         IN  IF r = "True" THEN AllFrom(m, kids, i + 1) ELSE r

\* $or evaluated with all() in place of any()
AnyFromAsAll(m, kids, i) == AllFrom(m, kids, i)

\* any(_evaluate_condition(meta, c) for c in kids), from the i-th child on
AnyFrom(m, kids, i) ==
    IF i > Len(kids) THEN "False"
    ELSE LET r == _evaluate_condition(m, kids[i])
         IN  IF r = "False" THEN AnyFrom(m, kids, i + 1) ELSE r

\* for field, constraint in condition.items(): ...   (from the i-th entry on)
FieldLoop(m, cond, i) ==
    IF i > Len(cond) THEN "True"
    ELSE LET value == MetaGet(m, cond[i].key)
             r == IF cond[i].kind = "dict"
                  THEN ConstraintLoop(value, cond[i].ops, 1)
                  ELSE IF ~PyEq(value, cond[i].bare) THEN "False" ELSE "True"
         IN  IF r = "True" THEN FieldLoop(m, cond, i + 1) ELSE r

\* an evaluator that, after $and / $or, also checks the sibling fields
EvaluateWithSiblings(m, cond) ==
    LET fields == SelectSeq(cond, LAMBDA e : e.kind # "list")
        r == IF HasKey(cond, "$and") THEN AllFrom(m, Lookup(cond, "$and").kids, 1)
             ELSE IF HasKey(cond, "$or") THEN AnyFrom(m, Lookup(cond, "$or").kids, 1)
             ELSE "True"
    IN  IF r = "True" THEN FieldLoop(m, fields, 1) ELSE r

_evaluate_condition(m, cond) ==
    IF HasKey(cond, "$and") THEN AllFrom(m, Lookup(cond, "$and").kids, 1)
    ELSE IF HasKey(cond, "$or") THEN AnyFrom(m, Lookup(cond, "$or").kids, 1)
    ELSE FieldLoop(m, cond, 1)

(***************************************************************************)
(* Scores.  A score the program is given (a BM25 score, 1.0 - distance, the *)
(* score of an input item) is held as the ratio num/den it stands for      *)
(* (den > 0, num >= 0); the program compares such scores and copies them.  *)
(* FracCmp compares by the continued-fraction expansion, so no product     *)
(* leaves the integer range.                                               *)
(*                                                                         *)
(* A score the fuser computes is a Python float, an IEEE 754 binary64:     *)
(* 0.0, or the record of its exponent e and its SigBits significand bits   *)
(* m (m[1] = 1), standing for m[1].m[2]m[3]... * 2^e.  Division and        *)
(* addition round to nearest, ties to even.  The values here are far from  *)
(* the subnormal and the overflow range.                                   *)
(***************************************************************************)
Score(num, den) == [num |-> num, den |-> den]

SigBits == 53

FZero == [e |-> 0, m |-> <<>>]                        \* 0.0

Zeros(n) == [i \in 1..n |-> 0]

\* the carry into position i of a + b + c, for two bit strings of one length
\* and a carry c into the last position
CarryInto(a, b, i, c) ==
    \/ \E j \in (i + 1)..Len(a) :
          a[j] + b[j] = 2 /\ \A h \in (i + 1)..(j - 1) : a[h] + b[h] = 1
    \/ c = 1 /\ \A h \in (i + 1)..Len(a) : a[h] + b[h] = 1

\* a + b + c; the result is one bit longer
AddBits(a, b, c) ==
    [i \in 1..(Len(a) + 1) |->
        IF i = 1 THEN (IF CarryInto(a, b, 0, c) THEN 1 ELSE 0)
        ELSE (a[i - 1] + b[i - 1] + (IF CarryInto(a, b, i - 1, c) THEN 1 ELSE 0)) % 2]

\* round the exact value bits[1].bits[2]... * 2^e (bits[1] = 1) to SigBits
\* bits; sticky tells that the exact value has further non-zero bits
RoundBits(bits, e, sticky) ==
    LET keep == SubSeq(bits, 1, SigBits)
        rest == SubSeq(bits, SigBits + 1, Len(bits))
        half == Len(rest) > 0 /\ rest[1] = 1
        more == sticky \/ \E i \in 2..Len(rest) : rest[i] = 1
        up   == half /\ (more \/ keep[SigBits] = 1)
        inc  == AddBits(keep, Zeros(SigBits), 1)
    IN  IF ~up THEN [e |-> e, m |-> keep]
        ELSE IF inc[1] = 1 THEN [e |-> e + 1, m |-> SubSeq(inc, 1, SigBits)]
        ELSE [e |-> e, m |-> Tail(inc)]

\* the least p with 2^p >= n
RECURSIVE CeilLog2(_, _)
CeilLog2(n, p) == IF 2 ^ p >= n THEN p ELSE CeilLog2(n, p + 1)

\* long division of r by n (r < n < 2^22), LimbBits bits of the quotient at
\* a step: the remainders before step 1, 2, ..., count + 1
LimbBits  == 9
LimbCount == 6
RECURSIVE DivRests(_, _, _)
DivRests(r, n, count) ==
    IF count = 0 THEN <<r>>
    ELSE <<r>> \o DivRests((r * (2 ^ LimbBits)) % n, n, count - 1)

\* 1.0 / n for an int n >= 1: the leading bit 1 (2^p div n for the least
\* 2^p >= n), then LimbBits * LimbCount further bits of the quotient
Recip(n) ==
    LET p     == CeilLog2(n, 0)
        rests == DivRests((2 ^ p) % n, n, LimbCount)
        limb  == [j \in 1..LimbCount |-> (rests[j] * (2 ^ LimbBits)) \div n]
        frac  == [i \in 1..(LimbBits * LimbCount) |->
                     (limb[(i - 1) \div LimbBits + 1]
                         \div (2 ^ (LimbBits - 1 - ((i - 1) % LimbBits)))) % 2]
    IN  RoundBits(<<1>> \o frac, 0 - p, rests[LimbCount + 1] # 0)

\* x + y for two floats >= 0
FAdd(x, y) ==
    IF x = FZero THEN y
    ELSE IF y = FZero THEN x
    ELSE LET hi  == IF x.e >= y.e THEN x ELSE y
             lo  == IF x.e >= y.e THEN y ELSE x
             d   == hi.e - lo.e
             sum == AddBits(hi.m \o Zeros(d), Zeros(d) \o lo.m, 0)
         IN  IF sum[1] = 1 THEN RoundBits(sum, hi.e + 1, FALSE)
             ELSE RoundBits(Tail(sum), hi.e, FALSE)

\* -1, 0, 1 as the bit string a is below, equal to, above b (one length)
BitsCmp(a, b) ==
    IF a = b THEN 0
    ELSE LET i == CHOOSE j \in 1..Len(a) :
                      a[j] # b[j] /\ \A h \in 1..(j - 1) : a[h] = b[h]
         IN  IF a[i] < b[i] THEN -1 ELSE 1

\* -1, 0, 1 as the float x is less than, equal to, greater than y
FloatCmp(x, y) ==
    IF x = y THEN 0
    ELSE IF x = FZero THEN -1
    ELSE IF y = FZero THEN 1
    ELSE IF x.e < y.e THEN -1
    ELSE IF x.e > y.e THEN 1
    ELSE BitsCmp(x.m, y.m)

\* line 176: x + 1.0 / d
AddReciprocal(x, d) == FAdd(x, Recip(d))

\* -1, 0, 1 as a/b is less than, equal to, greater than c/d
RECURSIVE FracCmp(_, _, _, _)
FracCmp(a, b, c, d) ==
    IF a \div b < c \div d THEN -1
    ELSE IF a \div b > c \div d THEN 1
    ELSE IF a % b = 0 /\ c % d = 0 THEN 0
    ELSE IF a % b = 0 THEN -1
    ELSE IF c % d = 0 THEN 1
    ELSE FracCmp(d, c % d, b, a % b)

\* the comparison sorted() makes between two scores of one kind
ScoreCmp(x, y) ==
    IF "num" \in DOMAIN x THEN FracCmp(x.num, x.den, y.num, y.den)
    ELSE FloatCmp(x, y)

RemoveAt(s, i) == SubSeq(s, 1, i - 1) \o SubSeq(s, i + 1, Len(s))

\* a sort that emits the last of several equal largest scores first
LastMax(acc) ==
    CHOOSE i \in 1..Len(acc) :
        /\ \A j \in 1..Len(acc) : ScoreCmp(acc[j].score, acc[i].score) <= 0
        /\ \A j \in (i + 1)..Len(acc) : ScoreCmp(acc[j].score, acc[i].score) < 0

\* the entry sorted(..., reverse=True) emits first: the largest score, and
\* among equal scores the one that comes first in the input (sorted is
\* stable, also with reverse)
FirstMax(acc) ==
    CHOOSE i \in 1..Len(acc) :
        /\ \A j \in 1..Len(acc) : ScoreCmp(acc[j].score, acc[i].score) <= 0
        /\ \A j \in 1..(i - 1) : ScoreCmp(acc[j].score, acc[i].score) < 0

\* sorted(entries, key=score, reverse=True)
RECURSIVE SortedDesc(_)
SortedDesc(acc) ==
    IF acc = <<>> THEN <<>>
    ELSE LET i == FirstMax(acc)
         IN  <<acc[i]>> \o SortedDesc(RemoveAt(acc, i))

(***************************************************************************)
(* reciprocal_rank_fusion.                                                 *)
(***************************************************************************)
\* {key: r[key] for key in r if key not in ("score", "rank")}
DocData(r) == [key \in (DOMAIN r) \ {"score", "rank"} |-> r[key]]

\* dict(doc_data); entry["score"] = ...; entry["rank"] = ...
WithScoreRank(data, sc, rk) ==
    [key \in (DOMAIN data) \cup {"score", "rank"} |->
        IF key = "score" THEN sc ELSE IF key = "rank" THEN rk ELSE data[key]]

\* a lookup that finds no key, so that every item opens a new entry
KeyIndexNever(acc, doc_id) == 0

\* position of doc_id in the insertion-ordered dict, 0 when it is no key yet
KeyIndex(acc, doc_id) ==
    IF \E i \in 1..Len(acc) : acc[i].doc_id = doc_id
    THEN CHOOSE i \in 1..Len(acc) : acc[i].doc_id = doc_id
    ELSE 0

\* the item's contribution assigned instead of added to scores[doc_id]
AddItemOverwrite(acc, r, kk) ==
    LET i == KeyIndex(acc, r.doc_id)
    IN  IF i = 0
        THEN Append(acc, [doc_id |-> r.doc_id,
                          score |-> AddReciprocal(FZero, kk + r.rank),
                          data |-> DocData(r)])
        ELSE [acc EXCEPT ![i].score = AddReciprocal(FZero, kk + r.rank)]

\* doc_data[doc_id] assigned at every occurrence, so that the last copy stays
AddItemKeepLast(acc, r, kk) ==
    LET i == KeyIndex(acc, r.doc_id)
    IN  IF i = 0
        THEN Append(acc, [doc_id |-> r.doc_id,
                          score |-> AddReciprocal(FZero, kk + r.rank),
                          data |-> DocData(r)])
        ELSE [acc EXCEPT ![i].score = AddReciprocal(@, kk + r.rank),
                         ![i].data = DocData(r)]

\* lines 175-179 for one item r: acc is the pair of dicts (scores, doc_data)
\* as the sequence of their keys in insertion order
AddItem(acc, r, kk) ==
    LET i == KeyIndex(acc, r.doc_id)
    IN  IF i = 0
        THEN Append(acc, [doc_id |-> r.doc_id,
                          score |-> AddReciprocal(FZero, kk + r.rank),
                          data |-> DocData(r)])
        ELSE [acc EXCEPT ![i].score = AddReciprocal(@, kk + r.rank)]

\* lines 173-179: the two nested loops, from item i of list j on
RECURSIVE Accumulate(_, _, _, _, _)
Accumulate(acc, lists, kk, j, i) ==
    IF j > Len(lists) THEN acc
    ELSE IF i > Len(lists[j]) THEN Accumulate(acc, lists, kk, j + 1, 1)
    ELSE Accumulate(AddItem(acc, lists[j][i], kk), lists, kk, j, i + 1)

\* lines 183-188
Enumerate(sorted) ==
    [rk \in 1..Len(sorted) |-> WithScoreRank(sorted[rk].data, sorted[rk].score, rk)]

reciprocal_rank_fusion(lists, kk) ==
    Enumerate(SortedDesc(Accumulate(<<>>, lists, kk, 1, 1)))

(***************************************************************************)
(* tokenize: re.findall(r"[a-z0-9](?:[a-z0-9-]*[a-z0-9])?", text.lower()). *)
(* A text is the sequence of its characters, a token the sequence of the   *)
(* characters it spans.                                                    *)
(***************************************************************************)
UpperCase == <<"A", "B", "C", "D", "E", "F", "G", "H", "I", "J", "K", "L", "M",
               "N", "O", "P", "Q", "R", "S", "T", "U", "V", "W", "X", "Y", "Z">>
LowerCase == <<"a", "b", "c", "d", "e", "f", "g", "h", "i", "j", "k", "l", "m",
               "n", "o", "p", "q", "r", "s", "t", "u", "v", "w", "x", "y", "z">>
Digits    == {"0", "1", "2", "3", "4", "5", "6", "7", "8", "9"}

\* Characters outside ASCII are written by their code point.  These are
\* the ones str.lower() changes among those the inputs use: KELVIN SIGN
\* becomes the letter k, LATIN CAPITAL LETTER I WITH DOT ABOVE becomes the
\* letter i followed by COMBINING DOT ABOVE, LATIN CAPITAL LETTER E WITH
\* ACUTE becomes the small letter with acute
NonAsciiLower ==
    [c \in {"U+212A", "U+0130", "U+00C9"} |->
        IF c = "U+212A" THEN <<"k">>
        ELSE IF c = "U+0130" THEN <<"i", "U+0307">>
        ELSE <<"U+00E9">>]

\* str.lower() on one character: a str of one or two characters
Lower(c) ==
    IF \E i \in 1..Len(UpperCase) : UpperCase[i] = c
    THEN << LowerCase[CHOOSE i \in 1..Len(UpperCase) : UpperCase[i] = c] >>
    ELSE IF c \in DOMAIN NonAsciiLower THEN NonAsciiLower[c]
    ELSE <<c>>

\* text.lower()
RECURSIVE LowerText(_)
LowerText(t) == IF t = <<>> THEN <<>> ELSE Lower(Head(t)) \o LowerText(Tail(t))

IsAlnum(c) == (\E i \in 1..Len(LowerCase) : LowerCase[i] = c) \/ c \in Digits  \* [a-z0-9]
IsInner(c) == IsAlnum(c) \/ c = "-"                                          \* [a-z0-9-]

\* how far the greedy [a-z0-9-]* reaches when the match started at p
RECURSIVE GreedyEnd(_, _)
GreedyEnd(t, q) ==
    IF q < Len(t) /\ IsInner(t[q + 1]) THEN GreedyEnd(t, q + 1) ELSE q

\* the star gives characters back until [a-z0-9] matches at e; when it has
\* none left the optional group matches nothing and the match ends at p
RECURSIVE Backtrack(_, _, _)
Backtrack(t, p, e) ==
    IF e = p THEN p
    ELSE IF IsAlnum(t[e]) THEN e
    ELSE Backtrack(t, p, e - 1)

\* a match that keeps everything the star consumed
MatchEndGreedy(t, p) == GreedyEnd(t, p)

\* last position of the match that starts at p
MatchEnd(t, p) == Backtrack(t, p, GreedyEnd(t, p))

\* re.findall from position p on: non-overlapping matches, left to right
RECURSIVE FindAll(_, _)
FindAll(t, p) ==
    IF p > Len(t) THEN <<>>
    ELSE IF ~IsAlnum(t[p]) THEN FindAll(t, p + 1)
    ELSE <<SubSeq(t, p, MatchEnd(t, p))>> \o FindAll(t, MatchEnd(t, p) + 1)

tokenize(t) == FindAll(LowerText(t), 1)

(***************************************************************************)
(* BM25Index.search.  get_scores is the rank_bm25 library: its result for  *)
(* the query is the input  sc  (one integer score per document).           *)
(***************************************************************************)
Min(a, b)  == IF a < b THEN a ELSE b
Take(s, n) == SubSeq(s, 1, Min(n, Len(s)))        \* s[:n] for n >= 0

\* zip(self._doc_ids, scores)
Zip(docs, sc) ==
    [i \in 1..Len(docs) |-> [doc_id |-> docs[i].doc_id, score |-> Score(sc[i], 1)]]

\* a search that returns only the documents the query matched
BM25SearchPositive(docs, sc, n) ==
    LET scored == Take(SelectSeq(SortedDesc(Zip(docs, sc)), LAMBDA x : x.score.num # 0), n)
    IN  [rk \in 1..Len(scored) |->
            [doc_id |-> scored[rk].doc_id, score |-> scored[rk].score, rank |-> rk]]

\* a search that sorts the list of the index in place (list.sort by score)
IndexSortedInPlace(ids, sc) ==
    LET order == SortedDesc([i \in 1..Len(ids) |-> [at |-> i, score |-> Score(sc[i], 1)]])
    IN  [i \in 1..Len(ids) |-> ids[order[i].at]]

\* sparse.py lines 66-77 seen from the index: the list of the index (ids)
\* after a search.  sorted(zip(...)) builds a new list and results is a list of new
\* dicts; search assigns to no attribute of self and calls no method that
\* changes one
IndexAfterSearch(ids, sc) == ids

\* lines 70-77: sort the (doc_id, score) pairs, cut, number
BM25Search(docs, sc, n) ==
    LET scored == Take(SortedDesc(Zip(docs, sc)), n)
    IN  [rk \in 1..Len(scored) |->
            [doc_id |-> scored[rk].doc_id, score |-> scored[rk].score, rank |-> rk]]

\* a token as a str: the concatenation of its characters
RECURSIVE TokenString(_)
TokenString(tok) == IF tok = <<>> THEN "" ELSE tok[1] \o TokenString(Tail(tok))

\* self._bm25.get_scores(tokenized_query), the rank_bm25 library: a vector
\* of zeros to which every query token adds its weight for each document.
\* bm25[term][i] is the weight of term for document i (idf times the
\* saturated term frequency, 0 when the document lacks the term); a term
\* the corpus lacks adds nothing
RECURSIVE get_scores(_, _, _)
get_scores(bm25, toks, n) ==
    IF toks = <<>> THEN [i \in 1..n |-> 0]
    ELSE LET rest == get_scores(bm25, Tail(toks), n)
             term == TokenString(Head(toks))
         IN  [i \in 1..n |-> rest[i] + (IF term \in DOMAIN bm25 THEN bm25[term][i] ELSE 0)]

\* a search that refuses a query without tokens
BM25Index_search_strict(index, q, n) ==
    IF tokenize(q) = <<>> THEN <<"ValueError">>
    ELSE <<"ok", BM25Search([i \in 1..Len(index.doc_ids) |-> [doc_id |-> index.doc_ids[i]]],
                            get_scores(index.bm25, tokenize(q), Len(index.doc_ids)), n)>>

\* BM25Index.search(query, top_k) on the object index
BM25Index_search(index, q, n) ==
    <<"ok", BM25Search([i \in 1..Len(index.doc_ids) |-> [doc_id |-> index.doc_ids[i]]],
                       get_scores(index.bm25, tokenize(q), Len(index.doc_ids)), n)>>

(***************************************************************************)
(* apply_filters and the pieces of search_hybrid.                          *)
(***************************************************************************)
NoWhere        == [given |-> FALSE, cond |-> <<>>]      \* where = None
GivenWhere(c)  == [given |-> TRUE, cond |-> c]          \* where = c, a dict
TruthyGiven(w) == w.given                               \* "if where is not None:"
Truthy(w)      == w.given /\ w.cond # <<>>              \* "if where:"

\* {a["doc_id"]: a for a in documents}.get(doc_id): the last article with
\* that id; index 0 when there is none
ArticleIndex(docs, doc_id) ==
    IF \E i \in 1..Len(docs) : docs[i].doc_id = doc_id
    THEN CHOOSE i \in 1..Len(docs) :
            /\ docs[i].doc_id = doc_id
            /\ \A j \in (i + 1)..Len(docs) : docs[j].doc_id # doc_id
    ELSE 0

RECURSIVE JoinComma(_)
JoinComma(codes) ==
    IF Len(codes) = 0 THEN ""
    ELSE IF Len(codes) = 1 THEN codes[1]
    ELSE codes[1] \o "," \o JoinComma(Tail(codes))

\* a record of the four fields a result carries
FlatMetaDisplayOnly(article) ==
    [region          |-> Str(article.region),
     product_version |-> Str(article.product_version),
     category        |-> Str(article.category),
     deprecated      |-> Bool(article.deprecated)]

\* indexer.py lines 83-93: the metadata record index_all hands to
\* collection.upsert for an article
IndexMeta(a) ==
    [region          |-> Str(a.region),
     product_version |-> Str(a.product_version),
     effective_date  |-> Str(a.effective_date),
     category        |-> Str(a.category),
     deprecated      |-> Bool(a.deprecated),
     error_codes_str |-> Str(JoinComma(a.error_codes))]

\* lines 139-146: the flattened metadata record of an article
FlatMeta(article) ==
    [region          |-> Str(article.region),
     product_version |-> Str(article.product_version),
     category        |-> Str(article.category),
     deprecated      |-> Bool(article.deprecated),
     effective_date  |-> Str(article.effective_date),
     error_codes_str |-> Str(JoinComma(article.error_codes))]

FilterVerdict(docs, r, cond) ==
    _evaluate_condition(FlatMeta(docs[ArticleIndex(docs, r.doc_id)]), cond)

\* apply_filters(results, where, articles_by_id) for a non-empty where:
\* raises when some evaluation raises, else keeps the results that pass
ApplyFiltersRaises(results, cond, docs) ==
    \E i \in 1..Len(results) :
        /\ ArticleIndex(docs, results[i].doc_id) # 0
        /\ FilterVerdict(docs, results[i], cond) = "TypeError"

\* a filter that lets every result through
apply_filters_all(results, cond, docs) == results

apply_filters(results, cond, docs) ==
    IF cond = <<>> THEN results
    ELSE SelectSeq(results, LAMBDA r : /\ ArticleIndex(docs, r.doc_id) # 0
                                       /\ FilterVerdict(docs, r, cond) = "True")

\* positions of the results apply_filters keeps
KeptPositions(results, cond, docs) ==
    SelectSeq([i \in 1..Len(results) |-> i],
              LAMBDA i : /\ ArticleIndex(docs, results[i].doc_id) # 0
                         /\ FilterVerdict(docs, results[i], cond) = "True")

\* a filter that returns the article dicts of the index, not the results
KeptObjectsArticles(results, cond, docs) ==
    LET kept == KeptPositions(results, cond, docs)
    IN  [n \in 1..Len(kept) |->
            [of |-> "article", at |-> ArticleIndex(docs, results[kept[n]].doc_id)]]

\* the objects in the list apply_filters returns: line 148 appends r, the
\* dict taken from results (created by BM25Index.search for this call),
\* and line 132 returns results itself
KeptObjects(results, cond, docs) ==
    LET kept == KeptPositions(results, cond, docs)
    IN  [n \in 1..Len(kept) |-> [of |-> "result", at |-> kept[n]]]

\* lines 313-314 seen from the index: item["rank"] = new_rank writes to the
\* objects of sparse_filtered; bm25_index.documents changes where one of
\* them is an article dict
ReRankWrites(docs, objs) ==
    [a \in 1..Len(docs) |->
        IF \E n \in 1..Len(objs) : objs[n].of = "article" /\ objs[n].at = a
        THEN LET n == CHOOSE m \in 1..Len(objs) :
                          /\ objs[m].of = "article" /\ objs[m].at = a
                          /\ \A l \in (m + 1)..Len(objs) :
                                ~(objs[l].of = "article" /\ objs[l].at = a)
             IN  [f \in (DOMAIN docs[a]) \cup {"rank"} |->
                     IF f = "rank" THEN n ELSE docs[a][f]]
        ELSE docs[a]]

\* the filtered items left with the ranks BM25 gave them
ReRankSkipped(items) == items

\* lines 313-314: for new_rank, item in enumerate(..., start=1): item["rank"] = new_rank
ReRank(items) == [i \in 1..Len(items) |-> [items[i] EXCEPT !.rank = i]]

\* lines 326-342 (and 256-274): sparse result records with article data
Enrich(raw, docs) ==
    [i \in 1..Len(raw) |->
        LET a == docs[ArticleIndex(docs, raw[i].doc_id)]
        IN  [doc_id |-> raw[i].doc_id, title |-> a.title, body |-> a.body,
             region |-> a.region, product_version |-> a.product_version,
             category |-> a.category, deprecated |-> a.deprecated,
             score |-> raw[i].score, rank |-> raw[i].rank]]

\* _chroma_to_results: split the text, copy four metadata fields,
\* score = 1.0 - distance, rank by position.  reply is the sequence of
\* (article, distance) the port returned
chroma_to_results(reply) ==
    [rk \in 1..Len(reply) |->
        LET a == reply[rk].article
        IN  [doc_id |-> a.doc_id, title |-> a.title, body |-> a.body,
             region |-> a.region, product_version |-> a.product_version,
             category |-> a.category, deprecated |-> a.deprecated,
             score |-> Score(reply[rk].dist.den - reply[rk].dist.num, reply[rk].dist.den),
             rank |-> rk]]

\* lines 307-323: the sparse branch.  wide / over are the BM25 outputs for
\* top_k * 10 and top_k * 3
SparseRawNarrow(docs, sc, tk) == BM25Search(docs, sc, tk * 3)   \* filter after the cut
SparseRaw(docs, sc, tk)  == BM25Search(docs, sc, tk * 10)
SparseOver(docs, sc, tk) == BM25Search(docs, sc, tk * 3)

\* lines 310-314: sparse_filtered after the re-ranking loop
SparseFiltered(docs, sc, tk, w) ==
    ReRank(apply_filters(SparseRaw(docs, sc, tk), w.cond, docs))

\* a branch that keeps the filtered list even when it is empty
SparseFallbackNever(docs, sc, tk, w) == FALSE

\* line 317 "if not sparse_results_raw" for a truthy where
SparseFallback(docs, sc, tk, w) ==
    Truthy(w) /\ Take(SparseFiltered(docs, sc, tk, w), tk * 3) = <<>>

\* the branch without the empty-after-filter fallback of lines 317-321
SparseResultsRawNoFallback(docs, sc, tk, w) ==
    IF Truthy(w)
    THEN Take(SparseFiltered(docs, sc, tk, w), tk * 3)
    ELSE SparseOver(docs, sc, tk)

\* sparse_results_raw at line 325
SparseResultsRaw(docs, sc, tk, w) ==
    IF Truthy(w)
    THEN IF SparseFallback(docs, sc, tk, w)
         THEN SparseOver(docs, sc, tk)
         ELSE Take(SparseFiltered(docs, sc, tk, w), tk * 3)
    ELSE SparseOver(docs, sc, tk)

\* a branch that falls back without logging
SparseEventsSilent(docs, sc, tk, w) ==
    IF Truthy(w)
    THEN <<"bm25_wide">> \o (IF SparseFallback(docs, sc, tk, w) THEN <<"bm25_over">> ELSE <<>>)
    ELSE <<"bm25_over">>

\* lines 307-323 in program order: the BM25Index.search calls (for
\* top_k * 10 and for over_k) and the logger.warning of line 318
SparseEvents(docs, sc, tk, w) ==
    IF Truthy(w)
    THEN <<"bm25_wide">> \o (IF SparseFallback(docs, sc, tk, w)
                             THEN <<"warn_sparse", "bm25_over">>
                             ELSE <<>>)
    ELSE <<"bm25_over">>

\* the BM25Index.search calls the branch makes, in order
SparseCalls(docs, sc, tk, w) ==
    IF Truthy(w)
    THEN << [top_k |-> tk * 10, out |-> SparseRaw(docs, sc, tk)] >>
         \o (IF SparseFallback(docs, sc, tk, w)
             THEN << [top_k |-> tk * 3, out |-> SparseOver(docs, sc, tk)] >>
             ELSE <<>>)
    ELSE << [top_k |-> tk * 3, out |-> SparseOver(docs, sc, tk)] >>

(***************************************************************************)
(* convert_to_chromadb_where.  filters is a Python dict: here the sequence *)
(* of its (key, value) entries in insertion order.  The where clause built *)
(* is a condition as above; {} is the condition without entries.           *)
(***************************************************************************)
FiltersHas(f, key) == \E i \in 1..Len(f) : f[i].key = key            \* key in filters
FiltersGet(f, key) == f[CHOOSE i \in 1..Len(f) : f[i].key = key].value \* filters[key]

\* lines 97-107: the fields of the four "if ... in filters" blocks, in order
ConvertFields == <<"region", "product_version", "category", "deprecated">>

\* lines 95-107: conditions, from the i-th block on
RECURSIVE ConditionsFor(_, _, _)
ConditionsFor(f, fields, i) ==
    IF i > Len(fields) THEN <<>>
    ELSE (IF FiltersHas(f, fields[i])
          THEN << Leaf(fields[i], "$eq", Scalar(FiltersGet(f, fields[i]))) >>
          ELSE <<>>)
         \o ConditionsFor(f, fields, i + 1)

\* lines 109-115
Pack(conditions) ==
    IF conditions = <<>> THEN <<>>
    ELSE IF Len(conditions) = 1 THEN conditions[1]
    ELSE AndOf(conditions)

\* a converter with a fifth block, for error_codes
convert_with_error_codes(f) ==
    IF f = <<>> THEN <<>>
    ELSE Pack(ConditionsFor(f, ConvertFields \o <<"error_codes">>, 1))

convert_to_chromadb_where(f) ==
    IF f = <<>> THEN <<>>
    ELSE Pack(ConditionsFor(f, ConvertFields, 1))

(***************************************************************************)
(* Inputs of SpecFilter.                                                   *)
(***************************************************************************)
MaxKids == 2    \* children of an $and / $or

KnownOps      == {"$eq", "$ne", "$gt", "$gte", "$lt", "$lte", "$in", "$nin"}
OrderOps      == {"$gt", "$gte", "$lt", "$lte"}
UnknownOp     == "$regex"
UnknownField  == "colour"
FilterFields  == {"region", "deprecated", UnknownField}

\* the values a where clause can carry as a target: str, bool and None (a
\* JSON null of the extracted filters, which convert_to_chromadb_where
\* copies into {"$eq": ...}), and lists of them
ScalarValues  == {Str("EU"), Str("US"), Str(""), Bool(TRUE), Bool(FALSE), NoneV}
ScalarTargets == {Scalar(v) : v \in ScalarValues}
ListTargets   == {ListOf(<<>>), ListOf(<<Str("EU")>>),
                  ListOf(<<Str("US"), Bool(FALSE)>>),
                  ListOf(<<NoneV>>), ListOf(<<Str("EU"), NoneV>>)}

\* membership tests on the joined error codes, with a str and a list target
CodeStrings   == {Str("E-4012"), Str("E-5001"), Str("E-4012,E-5001"), Str("")}
CodeLeaves    ==
    {Leaf("error_codes_str", op, t) :
        op \in {"$in", "$nin", "$eq"},
        t \in {Scalar(v) : v \in CodeStrings} \cup {ListOf(<<Str("E-4012")>>)}}

\* metadata records: region and deprecated each present or absent
Metas ==
    {[region |-> r, deprecated |-> d] : r \in {Str("EU"), Str("US")},
                                        d \in {Bool(TRUE), Bool(FALSE)}}
    \cup {[region |-> r] : r \in {Str("EU"), Str("US")}}
    \cup {[deprecated |-> d] : d \in {Bool(TRUE), Bool(FALSE)}}
    \cup {[region |-> Str("EU"), error_codes_str |-> c] : c \in CodeStrings}

SeqsUpTo(S, n) == UNION {[1..m -> S] : m \in 0..n}

OpLeaves   == {Leaf(f, op, t) : f \in FilterFields, op \in KnownOps \cup {UnknownOp},
                                t \in ScalarTargets \cup ListTargets}
BareLeaves == {BareLeaf(f, v) : f \in FilterFields, v \in ScalarValues}
\* dicts with two fields, and a constraint with two operators
MultiKey ==
    { BareLeaf("region", Str("EU")) \o BareLeaf("deprecated", Bool(FALSE)),
      BareLeaf("region", Str("US")) \o Leaf("deprecated", "$ne", Scalar(Bool(TRUE))),
      << Entry("region", "dict", <<>>,
               << [op |-> "$gte", target |-> Scalar(Str("EU"))],
                  [op |-> "$lt",  target |-> Scalar(Str("US"))] >>,
               Scalar(NoneV)) >> }
\* the leaves composites are built from
KidLeaves ==
    { Leaf("region", "$eq", Scalar(Str("EU"))),
      Leaf("deprecated", "$eq", Scalar(Bool(FALSE))),
      BareLeaf("region", Str("US")),
      Leaf("region", "$gt", Scalar(Bool(TRUE))),
      Leaf("deprecated", UnknownOp, Scalar(Str("EU"))),
      Leaf(UnknownField, "$nin", ListOf(<<Str("EU")>>)) }
Composites1 == {AndOf(ks) : ks \in SeqsUpTo(KidLeaves, MaxKids)}
               \cup {OrOf(ks) : ks \in SeqsUpTo(KidLeaves, MaxKids)}
NestedKids ==
    { Leaf("region", "$eq", Scalar(Str("EU"))),
      Leaf("deprecated", "$lt", Scalar(Str("EU"))),
      AndOf(<<BareLeaf("region", Str("EU")), Leaf("deprecated", "$eq", Scalar(Bool(FALSE)))>>),
      OrOf(<<BareLeaf("region", Str("US")), Leaf("deprecated", "$eq", Scalar(Bool(TRUE)))>>) }
Composites2 == {AndOf(ks) : ks \in SeqsUpTo(NestedKids, MaxKids)}
               \cup {OrOf(ks) : ks \in SeqsUpTo(NestedKids, MaxKids)}
\* dicts that hold $and or $or next to other keys, in either key order
SiblingKids   == { Leaf("region", "$eq", Scalar(Str("EU"))),
                   Leaf("deprecated", "$eq", Scalar(Bool(FALSE))) }
FieldSiblings == { BareLeaf("region", Str("US")),
                   Leaf("deprecated", "$eq", Scalar(Bool(TRUE))),
                   Leaf("region", "$gt", Scalar(Bool(TRUE))) }
OrSiblings    == { OrOf(<<>>), OrOf(<< Leaf("region", "$eq", Scalar(Str("US"))) >>) }
WithSiblings ==
    {AndOf(ks) \o sib : ks \in SeqsUpTo(SiblingKids, MaxKids), sib \in FieldSiblings \cup OrSiblings}
    \cup {sib \o AndOf(ks) : ks \in SeqsUpTo(SiblingKids, MaxKids), sib \in FieldSiblings \cup OrSiblings}
    \cup {OrOf(ks) \o sib : ks \in SeqsUpTo(SiblingKids, MaxKids), sib \in FieldSiblings}
    \cup {sib \o OrOf(ks) : ks \in SeqsUpTo(SiblingKids, MaxKids), sib \in FieldSiblings}
Conditions == OpLeaves \cup BareLeaves \cup MultiKey \cup Composites1 \cup Composites2
              \cup WithSiblings \cup CodeLeaves

(***************************************************************************)
(* Inputs of SpecRRF: up to MaxLists ranked lists of up to MaxLen distinct *)
(* documents among 1..NumDocs.  Ranks follow the positions 1, 2, ...; in   *)
(* the last list they may instead start at 2 (a list that lost its head).  *)
(* The title tells the copies of one document in different lists apart.    *)
(***************************************************************************)
NumDocs  == 3    \* documents 1..NumDocs
MaxLen   == 2    \* items of one input list
MaxLists == 2    \* input lists
RRF_K    == 60
Ks       == {1, RRF_K}

Docs     == 1..NumDocs
InjSeqs(S, n) == {q \in SeqsUpTo(S, n) : \A a, b \in 1..Len(q) : a # b => q[a] # q[b]}

ListTitle(j) == IF j = 1 THEN "first" ELSE IF j = 2 THEN "second" ELSE "later"

RankedList(ids, j, shift) ==
    [i \in 1..Len(ids) |->
        [doc_id |-> ids[i], title |-> ListTitle(j),
         score |-> Score(Len(ids) - i, 1), rank |-> i + shift]]

RRFInputs ==
    {[j \in 1..Len(idss) |->
        RankedList(idss[j], j, IF j = Len(idss) THEN shift ELSE 0)] :
            idss \in SeqsUpTo(InjSeqs(Docs, MaxLen), MaxLists), shift \in {0, 1}}

(***************************************************************************)
(* Inputs of Spec: a corpus of NumArticles articles, the BM25 scores of    *)
(* the query, top_k, the where clause, and what the vector port answers.   *)
(***************************************************************************)
NumArticles == 11   \* corpus size; the filtered sparse branch looks at 10 * top_k
MaxTopK     == 2    \* top_k ranges over 0..MaxTopK
MaxReply    == 2    \* documents in one answer of the vector port


\* odd articles are EU, even ones US, the last one APAC; every third is deprecated
Article(i) ==
    [doc_id          |-> i,
     title           |-> <<"title", i>>,
     body            |-> <<"body", i>>,
     region          |-> IF i = NumArticles THEN "APAC"
                         ELSE IF i % 2 = 1 THEN "EU" ELSE "US",
     product_version |-> IF i % 2 = 1 THEN "v1.0" ELSE "v2.0",
     category        |-> IF i % 2 = 1 THEN "billing" ELSE "networking",
     deprecated      |-> (i % 3 = 0),
     effective_date  |-> IF i % 2 = 1 THEN "2023-06-01" ELSE "2024-01-15",
     error_codes     |-> IF i % 3 = 1 THEN <<>>
                         ELSE IF i % 3 = 2 THEN <<"E-4012">> ELSE <<"E-4012", "E-5001">>]
Corpus   == [i \in 1..NumArticles |-> Article(i)]
Articles == 1..NumArticles

\* score vectors: all zero (a query with no token), falling and rising with
\* the insertion position, one matching document, and two tied groups
ScoreVectors ==
    { [i \in Articles |-> 0],
      [i \in Articles |-> NumArticles - i],
      [i \in Articles |-> i],
      [i \in Articles |-> i % 2] }
    \cup { [i \in Articles |-> IF i = d THEN 1 ELSE 0] : d \in {1, 2, NumArticles} }

Wheres ==
    { NoWhere,
      GivenWhere(<<>>),
      GivenWhere(BareLeaf("region", Str("EU"))),
      GivenWhere(Leaf("region", "$eq", Scalar(Str("APAC")))),
      GivenWhere(Leaf("region", "$eq", Scalar(Str("")))),
      GivenWhere(AndOf(<< Leaf("region", "$eq", Scalar(Str("EU"))),
                          Leaf("deprecated", "$eq", Scalar(Bool(FALSE))) >>)),
      GivenWhere(Leaf("region", UnknownOp, Scalar(Str("EU")))),
      GivenWhere(Leaf("region", "$gt", Scalar(Bool(TRUE)))) }

\* the port answers with at most n_results documents, nearest first; it
\* returns the first, the second or the last article
PortDocs == {1, 2, NumArticles}
PortReplies(n) ==
    {[i \in 1..Len(ids) |-> [article |-> Corpus[ids[i]], dist |-> Score(i, 10)]] :
        ids \in InjSeqs(PortDocs, Min(n, MaxReply))}

\* load_existing opens the stored collection and reads the articles file
\* anew: the collection may hold the first article as it was indexed under
\* an earlier title
StoredCopy(a) == [a EXCEPT !.title = <<"stored title", a.doc_id>>]
StaleReplies(n) ==
    {[i \in 1..Len(r) |-> IF r[i].article.doc_id = 1
                          THEN [r[i] EXCEPT !.article = StoredCopy(@)]
                          ELSE r[i]] :
        r \in {x \in PortReplies(n) : \E i \in 1..Len(x) : x[i].article.doc_id = 1}}

(***************************************************************************)
(* Inputs of SpecSession: one index shared by up to MaxCalls queries.  The *)
(* weights of "e-4012" fall with the insertion position, those of "error"  *)
(* alternate, so "E-4012" ranks the corpus in insertion order, "error"     *)
(* gives two tied groups and "-!" (no token) scores every document 0.      *)
(***************************************************************************)
MaxCalls == 3

SessionIndex ==
    [doc_ids |-> [i \in Articles |-> i],
     bm25    |-> [term \in {"e-4012", "error"} |->
                     IF term = "e-4012" THEN [i \in Articles |-> NumArticles - i]
                     ELSE [i \in Articles |-> i % 2]]]

SessionQueries ==
    { <<"E", "-", "4", "0", "1", "2">>, <<"e", "r", "r", "o", "r">>, <<"-", "!">> }

SessionTopKs  == {0, 2}

SessionWheres ==
    { NoWhere,
      GivenWhere(BareLeaf("region", Str("EU"))),
      GivenWhere(Leaf("region", "$eq", Scalar(Str("APAC")))) }

\* the port answers nothing, the first article, or the second and the first
SessionReplies(n) ==
    {r \in PortReplies(n) :
        \/ Len(r) = 0
        \/ Len(r) = 1 /\ r[1].article.doc_id = 1
        \/ Len(r) = 2 /\ r[1].article.doc_id = 2 /\ r[2].article.doc_id = 1}

(***************************************************************************)
(* Inputs of SpecTokenize: every text of up to MaxText characters over a   *)
(* lower-case letter, an upper-case letter, a digit, the hyphen and two    *)
(* separators, the text "Error E-4012, retry!", and texts with characters  *)
(* outside ASCII.                                                          *)
(***************************************************************************)
MaxText     == 5
TextChars   == {"e", "E", "4", "-", ",", " "}
ExampleText == <<"E", "r", "r", "o", "r", " ", "E", "-", "4", "0", "1", "2", ",",
                 " ", "r", "e", "t", "r", "y", "!">>
NonAsciiTexts ==
    { <<"U+212A">>, <<"e", "U+212A">>, <<"U+0130", "x">>, <<"U+00C9", "e">>,
      <<"4", "U+00E9", "-", "U+212A", "E">> }
Texts       == SeqsUpTo(TextChars, MaxText) \cup {ExampleText} \cup NonAsciiTexts

(***************************************************************************)
(* Inputs of SpecBM25: an index over 1..MaxCorpus documents with the two   *)
(* terms "e-4012" and "error", a query and top_k.  The weights of "e-4012" *)
(* range over -1..MaxWeight (rank_bm25 gives a term of most documents a    *)
(* negative idf), those of "error" are all zero or alternate.              *)
(***************************************************************************)
MaxCorpus == 3
MaxWeight == 1

BM25Tables(n) ==
    {[term \in {"e-4012", "error"} |-> IF term = "e-4012" THEN w ELSE v] :
        w \in [1..n -> -1..MaxWeight],
        v \in {[i \in 1..n |-> 0], [i \in 1..n |-> i % 2]}}

BM25Indexes ==
    UNION {{[doc_ids |-> [i \in 1..n |-> i], bm25 |-> tb] : tb \in BM25Tables(n)} :
              n \in 1..MaxCorpus}

\* "", "-!", "E-4012", "retry", "error E-4012"
BM25Queries ==
    { <<>>,
      <<"-", "!">>,
      <<"E", "-", "4", "0", "1", "2">>,
      <<"r", "e", "t", "r", "y">>,
      <<"e", "r", "r", "o", "r", " ", "E", "-", "4", "0", "1", "2">> }

(***************************************************************************)
(* Inputs of SpecConvert: dicts of up to MaxFilterKeys of the five keys    *)
(* the extraction prompt names, in any insertion order, and the dict with  *)
(* all five.                                                               *)
(***************************************************************************)
MaxFilterKeys == 3

FilterEntries ==
    { [key |-> "region", value |-> Str("EU")],
      [key |-> "region", value |-> Str("APAC")],
      [key |-> "product_version", value |-> Str("v2.0")],
      [key |-> "category", value |-> Str("billing")],
      [key |-> "deprecated", value |-> Bool(FALSE)],
      [key |-> "error_codes", value |-> Str("E-4012")] }

AllFiveKeys ==
    << [key |-> "error_codes", value |-> Str("E-4012")],
       [key |-> "deprecated", value |-> Bool(FALSE)],
       [key |-> "category", value |-> Str("billing")],
       [key |-> "product_version", value |-> Str("v2.0")],
       [key |-> "region", value |-> Str("EU")] >>

FiltersInputs ==
    {f \in SeqsUpTo(FilterEntries, MaxFilterKeys) :
        \A a, b \in 1..Len(f) : a # b => f[a].key # f[b].key}
    \cup {AllFiveKeys}

(***************************************************************************)
(* Idle values of the variables a specification does not use.              *)
(***************************************************************************)
FilterIdle == meta = [region |-> Str("EU")] /\ condition = <<>> /\ verdict = "unset"
RRFIdle    == result_lists = <<>> /\ k = 0 /\ fusedOut = <<"unset">>
TokIdle    == text = <<>> /\ tokens = <<"unset">>
BM25Idle   ==
    /\ bm_index = [doc_ids |-> <<>>, bm25 |-> <<>>]
    /\ bm_query = <<>> /\ bm_top_k = 0 /\ bm_results = <<"unset">>
(***************************************************************************)
(* The persistent collection: whether COLLECTION_NAME exists in the store, *)
(* the ids of the articles upserted into it and the metadata record stored *)
(* with each.  index_all upserts                                           *)
(* _UPSERT_BATCH = 100 articles at a time; the corpus here is smaller and  *)
(* so is the batch, UpsertBatch.                                           *)
(***************************************************************************)
UpsertBatch == 4

\* the collection as index_all leaves it: every article upserted
FullCollection ==
    [exists |-> TRUE, ids |-> Articles, metas |-> [i \in Articles |-> IndexMeta(Corpus[i])]]

\* what the port can answer from the collection as it is now
StoreReplies(n) ==
    IF collection.exists
    THEN {r \in PortReplies(n) :
             \A i \in 1..Len(r) : r[i].article.doc_id \in collection.ids}
    ELSE {}

RebuildWheres == {NoWhere, GivenWhere(BareLeaf("region", Str("EU")))}

ConvIdle   == filters = <<>> /\ converted = <<"unset">>
RetryIdle  ==
    /\ embed_pc = "idle" /\ attempt = 0 /\ tries = <<>> /\ sleeps = <<>> /\ embed_for = -1
SessionIdle == calls_done = 0 /\ first_return = <<>> /\ between = 0 /\ frames = <<>>
StoreIdle  == collection = FullCollection /\ rebuild_pc = "idle"
HybridIdle ==
    /\ pc = "idle" /\ documents = <<>> /\ scores = <<>> /\ top_k = 0
    /\ where = NoWhere /\ where0 = NoWhere /\ depth = 0
    /\ port_calls = <<>> /\ bm25_calls = <<>> /\ warnings = <<>>
    /\ dense_results = <<>> /\ sparse_filtered = <<>> /\ sparse_results = <<>>
    /\ fused = <<>> /\ result = <<>> /\ error = "none" /\ events = <<>>
    /\ SessionIdle /\ StoreIdle

(***************************************************************************)
(* SpecFilter: one call of _evaluate_condition(meta, condition).           *)
(***************************************************************************)
InitFilter ==
    /\ meta \in Metas
    /\ condition \in Conditions
    /\ verdict = "unset"
    /\ RRFIdle /\ TokIdle /\ BM25Idle /\ HybridIdle
    /\ ConvIdle /\ RetryIdle

Evaluate ==
    /\ verdict = "unset"
    /\ verdict' = _evaluate_condition(meta, condition)
    /\ UNCHANGED <<meta, condition, rrfVars, tokVars, bmVars, hybridVars, sessionVars, storeVars,
                   convVars, retryVars>>

NextFilter == Evaluate
SpecFilter == InitFilter /\ [][NextFilter]_vars

(***************************************************************************)
(* Reference semantics of a predicate tree (the denotation the evaluator   *)
(* is compared with), for trees whose every node is a single leaf          *)
(* {field: {op: value}}, a bare leaf {field: value}, an $and or an $or.    *)
(***************************************************************************)
RefLeaf(m, field, op, target) ==
    LET value   == MetaGet(m, field)
        equal   == ~target.list /\ value = target.v
        member  == \E i \in 1..Len(target.items) : target.items[i] = value
    IN  CASE op = "$eq"  -> equal
          [] op = "$ne"  -> ~equal
          [] op = "$gt"  -> value.t # "none" /\ value.n >  target.v.n
          [] op = "$gte" -> value.t # "none" /\ value.n >= target.v.n
          [] op = "$lt"  -> value.t # "none" /\ value.n <  target.v.n
          [] op = "$lte" -> value.t # "none" /\ value.n <= target.v.n
          [] op = "$in"  -> member
          [] op = "$nin" -> ~member

RECURSIVE RefTruth(_, _)
RefTruth(m, cond) ==
    LET e == cond[1]
    IN  IF e.key = "$and" THEN \A i \in 1..Len(e.kids) : RefTruth(m, e.kids[i])
        ELSE IF e.key = "$or" THEN \E i \in 1..Len(e.kids) : RefTruth(m, e.kids[i])
        ELSE IF e.kind = "bare" THEN RefLeaf(m, e.key, "$eq", e.bare)
        ELSE RefLeaf(m, e.key, e.ops[1].op, e.ops[1].target)

\* the trees the reference semantics covers: one key per node, a recognised
\* operator, an ordering between two values of one type (or on an absent
\* field), a list as the operand of $in / $nin
RECURSIVE InRefDomain(_, _)
InRefDomain(m, cond) ==
    /\ Len(cond) = 1
    /\ LET e == cond[1]
       IN  IF e.kind = "list"
           THEN \A i \in 1..Len(e.kids) : InRefDomain(m, e.kids[i])
           ELSE IF e.kind = "bare" THEN TRUE
           ELSE /\ Len(e.ops) = 1
                /\ e.ops[1].op \in KnownOps
                /\ e.ops[1].op \in OrderOps =>
                       \/ MetaGet(m, e.key).t = "none"
                       \/ PyOrdered(MetaGet(m, e.key), e.ops[1].target)
                /\ e.ops[1].op \in {"$in", "$nin"} => e.ops[1].target.list

\* C9: on every tree of leaves, bare leaves, $and and $or, and every
\* metadata record, _evaluate_condition returns the reference truth value:
\* the named comparison at a leaf, equality at a bare leaf, all children
\* for $and, at least one child for $or.
C9_EvaluatorMatchesReference ==
    (verdict # "unset" /\ InRefDomain(meta, condition))
        => verdict = (IF RefTruth(meta, condition) THEN "True" ELSE "False")

C9_Witness ==
    /\ verdict = "True"
    /\ condition = AndOf(<< Leaf("region", "$eq", Scalar(Str("EU"))),
                            Leaf("deprecated", "$eq", Scalar(Bool(FALSE))) >>)
    /\ meta = [region |-> Str("EU"), deprecated |-> Bool(FALSE)]

\* a single leaf on a field the record does not have
AbsentLeaf(m, cond) ==
    /\ Len(cond) = 1
    /\ cond[1].kind # "list"
    /\ cond[1].key \notin DOMAIN m
    /\ cond[1].kind = "dict" => Len(cond[1].ops) = 1

LeafOp(cond) == IF cond[1].kind = "bare" THEN "$eq" ELSE cond[1].ops[1].op

\* C10: a leaf on a field absent from the record evaluates to False for
\* equals (also the bare form), greater-than, greater-or-equal, less-than,
\* less-or-equal and set-membership, for every target the leaf may carry:
\* a str, a bool, None, or a list of such values.
C10_AbsentFieldFails ==
    ( /\ verdict # "unset"
      /\ AbsentLeaf(meta, condition)
      /\ LeafOp(condition) \in {"$eq", "$gt", "$gte", "$lt", "$lte", "$in"} )
        => verdict = "False"

\* a tree with a leaf on an unrecognised field or with an unrecognised operator
RECURSIVE Malformed(_)
Malformed(cond) ==
    \E j \in 1..Len(cond) :
        LET e == cond[j]
        IN  IF e.kind = "list" THEN \E i \in 1..Len(e.kids) : Malformed(e.kids[i])
            ELSE \/ e.key = UnknownField
                 \/ e.kind = "dict" /\ \E i \in 1..Len(e.ops) : e.ops[i].op \notin KnownOps

\* C6: a predicate with an unrecognised field or operator is surfaced by the
\* evaluator as a distinct MalformedPredicate error, never evaluated to a
\* truth value.
C6_MalformedSurfaced ==
    (verdict # "unset" /\ Malformed(condition)) => verdict = "MalformedPredicate"

\* the children under a key of the condition, and their verdicts
KidsOf(cond, key)        == Lookup(cond, key).kids
KidVerdicts(m, cond, key) ==
    [i \in 1..Len(KidsOf(cond, key)) |-> _evaluate_condition(m, KidsOf(cond, key)[i])]

\* the condition has a key besides the one given
HasSibling(cond, key) == \E i \in 1..Len(cond) : cond[i].key # key

\* C27: a condition dict with the key $and is evaluated from the children
\* of $and alone: True when all of them are True (so True when there is
\* none), False when one is False and none before it raised; the other
\* keys of the dict, fields or $or, change nothing.  A dict with $or and
\* without $and is evaluated from the children of $or alone: True when one
\* of them is True and none before it raised, False when all are False (so
\* False when there is none).
C27_AndOrIgnoreSiblings ==
    verdict # "unset" =>
        /\ HasKey(condition, "$and") =>
              LET v == KidVerdicts(meta, condition, "$and")
              IN  /\ verdict = _evaluate_condition(meta, AndOf(KidsOf(condition, "$and")))
                  /\ (\A i \in 1..Len(v) : v[i] = "True") => verdict = "True"
                  /\ (\E i \in 1..Len(v) :
                          v[i] = "False" /\ \A j \in 1..(i - 1) : v[j] = "True")
                        => verdict = "False"
                  /\ Len(v) = 0 => verdict = "True"
        /\ (HasKey(condition, "$or") /\ ~HasKey(condition, "$and")) =>
              LET v == KidVerdicts(meta, condition, "$or")
              IN  /\ verdict = _evaluate_condition(meta, OrOf(KidsOf(condition, "$or")))
                  /\ (\E i \in 1..Len(v) :
                          v[i] = "True" /\ \A j \in 1..(i - 1) : v[j] = "False")
                        => verdict = "True"
                  /\ (\A i \in 1..Len(v) : v[i] = "False") => verdict = "False"
                  /\ Len(v) = 0 => verdict = "False"

\* {"$and": [region = EU], "region": "US"} on an EU record: the sibling
\* field alone would be False, the dict evaluates to True
C27_Witness ==
    /\ verdict = "True"
    /\ meta = [region |-> Str("EU"), deprecated |-> Bool(FALSE)]
    /\ condition = AndOf(<< Leaf("region", "$eq", Scalar(Str("EU"))) >>)
                       \o BareLeaf("region", Str("US"))
    /\ HasSibling(condition, "$and")
    /\ _evaluate_condition(meta, BareLeaf("region", Str("US"))) = "False"

(***************************************************************************)
(* SpecConvert: one call of convert_to_chromadb_where(filters).            *)
(***************************************************************************)
InitConvert ==
    /\ filters \in FiltersInputs
    /\ converted = <<"unset">>
    /\ FilterIdle /\ RRFIdle /\ TokIdle /\ BM25Idle /\ HybridIdle /\ RetryIdle

Convert ==
    /\ converted = <<"unset">>
    /\ converted' = <<"ok", convert_to_chromadb_where(filters)>>
    /\ UNCHANGED <<filters, filterVars, rrfVars, tokVars, bmVars, hybridVars, sessionVars,
                   storeVars, retryVars>>

NextConvert == Convert
SpecConvert == InitConvert /\ [][NextConvert]_vars

(***************************************************************************)
(* Claims about convert_to_chromadb_where (SpecConvert).                   *)
(***************************************************************************)
RecognisedFields == <<"region", "product_version", "category", "deprecated">>

\* the condition, or one of its children, has the key
RECURSIVE MentionsKey(_, _)
MentionsKey(cond, key) ==
    \E j \in 1..Len(cond) :
        \/ cond[j].key = key
        \/ \E i \in 1..Len(cond[j].kids) : MentionsKey(cond[j].kids[i], key)

\* C29: convert_to_chromadb_where(filters) holds one equality condition
\* for each of region, product_version, category, deprecated that is a key
\* of filters, with the value filters gives it, in that order whatever the
\* order of the keys in filters: {} for none, the condition itself for one,
\* one $and of them for two or more.  So an article satisfies the result
\* exactly when it has the given value in each of those fields; the key
\* error_codes occurs nowhere in the result.
C29_ConvertConstrainsRecognisedFields ==
    converted[1] = "ok" =>
        LET out     == converted[2]
            present == SelectSeq(RecognisedFields, LAMBDA x : FiltersHas(filters, x))
            leaves  == [i \in 1..Len(present) |->
                           Leaf(present[i], "$eq", Scalar(FiltersGet(filters, present[i])))]
        IN  /\ Len(present) = 0 => out = <<>>
            /\ Len(present) = 1 => out = leaves[1]
            /\ Len(present) >= 2 => out = AndOf(leaves)
            /\ ~MentionsKey(out, "error_codes")
            /\ \A a \in Articles :
                  (_evaluate_condition(FlatMeta(Corpus[a]), out) = "True")
                      <=> \A i \in 1..Len(present) :
                              FlatMeta(Corpus[a])[present[i]] = FiltersGet(filters, present[i])

\* {error_codes: E-4012, deprecated: false, region: EU} gives the $and of
\* region = EU and deprecated = false
C29_Witness ==
    /\ converted[1] = "ok"
    /\ filters = << [key |-> "error_codes", value |-> Str("E-4012")],
                    [key |-> "deprecated", value |-> Bool(FALSE)],
                    [key |-> "region", value |-> Str("EU")] >>
    /\ converted[2] = AndOf(<< Leaf("region", "$eq", Scalar(Str("EU"))),
                               Leaf("deprecated", "$eq", Scalar(Bool(FALSE))) >>)

(***************************************************************************)
(* SpecRRF: one call of reciprocal_rank_fusion(result_lists, k).           *)
(***************************************************************************)
InitRRF ==
    /\ result_lists \in RRFInputs
    /\ k \in Ks
    /\ fusedOut = <<"unset">>
    /\ FilterIdle /\ TokIdle /\ BM25Idle /\ HybridIdle
    /\ ConvIdle /\ RetryIdle

Fuse ==
    /\ fusedOut = <<"unset">>
    /\ fusedOut' = <<"ok", reciprocal_rank_fusion(result_lists, k)>>
    /\ UNCHANGED <<result_lists, k, filterVars, tokVars, bmVars, hybridVars, sessionVars, storeVars,
                   convVars, retryVars>>

NextRRF == Fuse
SpecRRF == InitRRF /\ [][NextRRF]_vars

(***************************************************************************)
(* Claims about reciprocal_rank_fusion (SpecRRF).                          *)
(***************************************************************************)
RECURSIVE Flatten(_, _)
Flatten(lists, j) == IF j > Len(lists) THEN <<>> ELSE lists[j] \o Flatten(lists, j + 1)

\* first position of document d when the lists are scanned in the order given
FirstPos(lists, d) ==
    LET flat == Flatten(lists, 1)
    IN  CHOOSE i \in 1..Len(flat) :
            flat[i].doc_id = d /\ \A j \in 1..(i - 1) : flat[j].doc_id # d

FusedList == fusedOut[2]

\* C7: two documents with equal fused score appear in the order of their
\* first appearance in the scan of the input lists (first list entirely,
\* then the second, each in rank order).
C7_TiesByFirstAppearance ==
    fusedOut[1] = "ok" =>
        \A a, b \in 1..Len(FusedList) :
            (a < b /\ ScoreCmp(FusedList[a].score, FusedList[b].score) = 0)
                => FirstPos(result_lists, FusedList[a].doc_id)
                     < FirstPos(result_lists, FusedList[b].doc_id)

\* A = [d1 rank 1, d2 rank 2], B = [d2 rank 1, d1 rank 2], k = 60: the
\* scores are 1/61 + 1/62 and 1/62 + 1/61, the same float, and the output
\* is [d1, d2]
C7_Witness ==
    /\ fusedOut[1] = "ok"
    /\ k = RRF_K
    /\ result_lists = << RankedList(<<1, 2>>, 1, 0), RankedList(<<2, 1>>, 2, 0) >>
    /\ Len(FusedList) = 2
    /\ FusedList[1].doc_id = 1 /\ FusedList[2].doc_id = 2
    /\ FusedList[1].score = FAdd(Recip(61), Recip(62))
    /\ FusedList[2].score = FAdd(Recip(62), Recip(61))

\* rank of d in a list that contains it
RankIn(list, d) == list[CHOOSE i \in 1..Len(list) : list[i].doc_id = d].rank
Contains(list, d) == \E i \in 1..Len(list) : list[i].doc_id = d

\* the float sum, over the lists 1, ..., j that contain d and in that order,
\* of 1/(k + rank of d there)
RECURSIVE RefScore(_, _, _, _)
RefScore(lists, kk, d, j) ==
    IF j = 0 THEN FZero
    ELSE LET before == RefScore(lists, kk, d, j - 1)
         IN  IF Contains(lists[j], d)
             THEN FAdd(before, Recip(kk + RankIn(lists[j], d)))
             ELSE before

\* C8: every fused document's score is the sum, over exactly the lists that
\* contain it, of 1/(k + its rank there), and the output is ordered by
\* non-increasing fused score.
C8_ScoreIsSumOfReciprocals ==
    fusedOut[1] = "ok" =>
        /\ \A a \in 1..Len(FusedList) :
              FusedList[a].score
                  = RefScore(result_lists, k, FusedList[a].doc_id, Len(result_lists))
        /\ \A a, b \in 1..Len(FusedList) :
              a < b => ScoreCmp(FusedList[a].score, FusedList[b].score) >= 0

\* a document in both lists outranks, by its summed score, one that leads a list
C8_Witness ==
    /\ fusedOut[1] = "ok"
    /\ k = RRF_K
    /\ result_lists = << RankedList(<<1, 2>>, 1, 0), RankedList(<<2>>, 2, 0) >>
    /\ FusedList[1].doc_id = 2 /\ FusedList[2].doc_id = 1
    /\ FusedList[1].score = FAdd(Recip(62), Recip(61))
    /\ FusedList[2].score = Recip(61)

\* the doc_ids of a list, and of all input lists together
IdsOf(list)     == {list[i].doc_id : i \in 1..Len(list)}
IdsOfAll(lists) == UNION {IdsOf(lists[j]) : j \in 1..Len(lists)}

\* C26: the output of reciprocal_rank_fusion holds every doc_id at most
\* once, its doc_ids are exactly those of the input lists together, and
\* its length is the number of those doc_ids.
C26_OutputIsUnionOfInputs ==
    fusedOut[1] = "ok" =>
        /\ \A a, b \in 1..Len(FusedList) :
              a # b => FusedList[a].doc_id # FusedList[b].doc_id
        /\ IdsOf(FusedList) = IdsOfAll(result_lists)
        /\ Len(FusedList) = Cardinality(IdsOfAll(result_lists))

\* [d1, d2] and [d2, d3] fuse to three entries, d2 among them once
C26_Witness ==
    /\ fusedOut[1] = "ok"
    /\ result_lists = << RankedList(<<1, 2>>, 1, 0), RankedList(<<2, 3>>, 2, 0) >>
    /\ Len(FusedList) = 3
    /\ IdsOf(FusedList) = {1, 2, 3}
    /\ FusedList[1].doc_id = 2

(***************************************************************************)
(* SpecTokenize: one call of tokenize(text).                               *)
(***************************************************************************)
InitTokenize ==
    /\ text \in Texts
    /\ tokens = <<"unset">>
    /\ FilterIdle /\ RRFIdle /\ BM25Idle /\ HybridIdle
    /\ ConvIdle /\ RetryIdle

\* the function reads its argument and nothing else
Tokenize ==
    /\ tokens = <<"unset">>
    /\ tokens' = <<"ok", tokenize(text)>>
    /\ UNCHANGED <<text, filterVars, rrfVars, bmVars, hybridVars, sessionVars, storeVars,
                   convVars, retryVars>>

NextTokenize == Tokenize
SpecTokenize == InitTokenize /\ [][NextTokenize]_vars

(***************************************************************************)
(* Claims about tokenize (SpecTokenize).                                   *)
(***************************************************************************)
\* positions s..e of t hold alphanumerics and hyphens, an alphanumeric at
\* both ends
IsRun(t, s, e) ==
    /\ s <= e
    /\ IsAlnum(t[s]) /\ IsAlnum(t[e])
    /\ \A i \in s..e : IsInner(t[i])

\* the runs no longer run contains
MaximalRuns(t) ==
    {sp \in (1..Len(t)) \X (1..Len(t)) :
        /\ IsRun(t, sp[1], sp[2])
        /\ \A s \in 1..sp[1], e \in sp[2]..Len(t) :
              IsRun(t, s, e) => (s = sp[1] /\ e = sp[2])}

RECURSIVE RunsInOrder(_, _)
RunsInOrder(t, runs) ==
    IF runs = {} THEN <<>>
    ELSE LET first == CHOOSE sp \in runs : \A other \in runs : sp[1] <= other[1]
         IN  <<SubSeq(t, first[1], first[2])>> \o RunsInOrder(t, runs \ {first})

TokenList == tokens[2]

\* C11: the result of tokenize is the left-to-right sequence of the maximal
\* runs, in the lower-cased text, of alphanumeric characters with internal
\* hyphens; no token holds an upper-case letter, none is empty, none begins
\* or ends with a hyphen.
C11_TokenizeMaximalRuns ==
    tokens[1] = "ok" =>
        /\ TokenList = RunsInOrder(LowerText(text), MaximalRuns(LowerText(text)))
        /\ \A i \in 1..Len(TokenList) :
              /\ Len(TokenList[i]) >= 1
              /\ TokenList[i][1] # "-" /\ TokenList[i][Len(TokenList[i])] # "-"
              /\ \A j \in 1..Len(TokenList[i]) :
                    ~\E u \in 1..Len(UpperCase) : UpperCase[u] = TokenList[i][j]

\* tokenize("Error E-4012, retry!") = [error, e-4012, retry]
C11_Witness ==
    /\ tokens[1] = "ok"
    /\ text = ExampleText
    /\ TokenList = << <<"e", "r", "r", "o", "r">>,
                      <<"e", "-", "4", "0", "1", "2">>,
                      <<"r", "e", "t", "r", "y">> >>

(***************************************************************************)
(* SpecBM25: one call of BM25Index.search(query, top_k) on an index.       *)
(***************************************************************************)
InitBM25 ==
    /\ bm_index \in BM25Indexes
    /\ bm_query \in BM25Queries
    /\ bm_top_k \in 0..(MaxCorpus + 1)
    /\ bm_results = <<"unset">>
    /\ FilterIdle /\ RRFIdle /\ TokIdle /\ HybridIdle
    /\ ConvIdle /\ RetryIdle

\* the call reads self._doc_ids and self._bm25 and assigns neither
Search ==
    /\ bm_results = <<"unset">>
    /\ bm_results' = BM25Index_search(bm_index, bm_query, bm_top_k)
    /\ UNCHANGED <<bm_index, bm_query, bm_top_k, filterVars, rrfVars, tokVars, hybridVars, sessionVars, storeVars,
                   convVars, retryVars>>

NextBM25 == Search
SpecBM25 == InitBM25 /\ [][NextBM25]_vars

(***************************************************************************)
(* Claims about BM25Index.search (SpecBM25).                               *)
(***************************************************************************)
BMOut     == bm_results[2]
BMSize    == Len(bm_index.doc_ids)
BMScores  == get_scores(bm_index.bm25, tokenize(bm_query), BMSize)

\* insertion position of a document of the index
BMPos(doc_id) == CHOOSE i \in 1..BMSize : bm_index.doc_ids[i] = doc_id

\* the document at position i precedes the one at position j: higher score,
\* or the same score and loaded earlier
Precedes(sc, i, j) ==
    \/ sc[i] > sc[j]
    \/ sc[i] = sc[j] /\ i < j

\* C12: BM25Index.search(query, top_k) returns min(top_k, N) documents of
\* the N-document corpus with ranks 1, 2, ...: each returned document
\* precedes (higher score, or equal score and earlier insertion) every later
\* one and every document left out, whatever its score, zero included.
C12_SearchOrder ==
    bm_results[1] = "ok" =>
        LET sc == BMScores
        IN  /\ Len(BMOut) = Min(bm_top_k, BMSize)
            /\ \A r \in 1..Len(BMOut) :
                  /\ BMOut[r].rank = r
                  /\ \E i \in 1..BMSize : bm_index.doc_ids[i] = BMOut[r].doc_id
                  /\ BMOut[r].score = Score(sc[BMPos(BMOut[r].doc_id)], 1)
            /\ \A a, b \in 1..Len(BMOut) :
                  a < b => Precedes(sc, BMPos(BMOut[a].doc_id), BMPos(BMOut[b].doc_id))
            /\ \A r \in 1..Len(BMOut), p \in 1..BMSize :
                  (\A x \in 1..Len(BMOut) : BMPos(BMOut[x].doc_id) # p)
                      => Precedes(sc, BMPos(BMOut[r].doc_id), p)

\* "E-4012" against three documents weighted 0, 1, 1 with top_k = 4: the
\* whole corpus comes back, the tied documents in insertion order, then the
\* document with score zero
C12_Witness ==
    /\ bm_results[1] = "ok"
    /\ BMSize = 3 /\ bm_top_k = 4
    /\ BMScores = <<0, 1, 1>>
    /\ Len(BMOut) = 3
    /\ BMOut[1].doc_id = 2 /\ BMOut[2].doc_id = 3 /\ BMOut[3].doc_id = 1
    /\ BMOut[3].score = Score(0, 1)

\* C20: for a query that tokenizes to nothing, BM25Index.search raises no
\* error and returns the first min(top_k, N) documents in insertion order,
\* each with score 0.
C20_EmptyQueryInsertionOrder ==
    (bm_results # <<"unset">> /\ tokenize(bm_query) = <<>>) =>
        /\ bm_results[1] = "ok"
        /\ Len(BMOut) = Min(bm_top_k, BMSize)
        /\ \A r \in 1..Len(BMOut) :
              /\ BMOut[r].doc_id = bm_index.doc_ids[r]
              /\ BMOut[r].score = Score(0, 1)
              /\ BMOut[r].rank = r

\* the query "-!" against three documents that all hold "e-4012", top_k = 2
C20_Witness ==
    /\ bm_results[1] = "ok"
    /\ bm_query = <<"-", "!">>
    /\ BMSize = 3 /\ bm_top_k = 2
    /\ bm_index.bm25["e-4012"] = <<1, 1, 1>>
    /\ Len(BMOut) = 2
    /\ BMOut[1].doc_id = 1 /\ BMOut[2].doc_id = 2
    /\ BMOut[1].score = Score(0, 1) /\ BMOut[2].score = Score(0, 1)

(***************************************************************************)
(* Spec: one call of search_hybrid(collection, bm25_index, query, top_k,   *)
(* where, rrf_k = RRF_K), cut at the calls that leave the process:         *)
(* embed_query and collection.query, which succeed or raise.               *)
(*   pc: idle -> embed -> dense [-> dense_retry] -> sparse -> fuse         *)
(*           -> done | raised, or from fuse back to embed for the re-run   *)
(***************************************************************************)
Init ==
    /\ pc = "idle"
    /\ documents = Corpus
    /\ scores \in ScoreVectors
    /\ top_k = 0 /\ where = NoWhere /\ where0 = NoWhere /\ depth = 0
    /\ port_calls = <<>> /\ bm25_calls = <<>> /\ warnings = <<>>
    /\ dense_results = <<>> /\ sparse_filtered = <<>> /\ sparse_results = <<>>
    /\ fused = <<>> /\ result = <<>> /\ error = "none" /\ events = <<>>
    /\ FilterIdle /\ RRFIdle /\ TokIdle /\ BM25Idle /\ SessionIdle /\ StoreIdle
    /\ ConvIdle /\ RetryIdle

over_k == top_k * 3

\* a request for top_k candidates only
RequestTopK(w) == [n_results |-> top_k, where |-> IF Truthy(w) THEN w ELSE NoWhere]

\* kwargs of collection.query: "where" is set only for a truthy where
Request(w) == [n_results |-> over_k, where |-> IF Truthy(w) THEN w ELSE NoWhere]

\* a retry that sends the same kwargs again
RetryRequestKeepsWhere(w) == Request(w)

\* line 230: kwargs.pop("where", None)
RetryRequest(w) == Request(NoWhere)

\* a handler that retries whether or not a where clause was given
RetryAlways(w) == TRUE

\* line 226: "if where:" inside the except block
RetryOnFailure(w) == Truthy(w)

\* an entry of port_calls: the request, how the port answered it, and the
\* state of the collection the answer came from
PortCall(req, ok, reply) ==
    [n_results |-> req.n_results, where |-> req.where, ok |-> ok, reply |-> reply,
     seen |-> collection]

\* the caller invokes search_hybrid
Call(tk, w) ==
    /\ pc = "idle"
    /\ top_k' = tk /\ where' = w /\ where0' = w
    /\ pc' = "embed"
    /\ UNCHANGED <<documents, scores, depth, port_calls, bm25_calls, warnings,
                   dense_results, sparse_filtered, sparse_results, fused, result,
                   error, events, restVars>>

\* search_dense line 213: embed_query returns
EmbedOk ==
    /\ pc = "embed"
    /\ pc' = "dense"
    /\ events' = Append(events, "embed")
    /\ UNCHANGED <<documents, scores, top_k, where, where0, depth, port_calls,
                   bm25_calls, warnings, dense_results, sparse_filtered,
                   sparse_results, fused, result, error, restVars>>

\* what embed_query raises: the exception of the last attempt of
\* _embed_with_retry ("EmbeddingError"), or IndexError when the response
\* held no embedding and embeddings.py line 70 takes [0] of the empty list
EmbedErrors == {"EmbeddingError", "IndexError"}

\* search_dense line 213: embed_query raises exc, outside the try block
EmbedFail(exc) ==
    /\ pc = "embed"
    /\ pc' = "raised" /\ error' = exc
    /\ events' = Append(events, "embed")
    /\ UNCHANGED <<documents, scores, top_k, where, where0, depth, port_calls,
                   bm25_calls, warnings, dense_results, sparse_filtered,
                   sparse_results, fused, result, restVars>>

\* line 224: collection.query returns
DenseOk(reply) ==
    /\ pc = "dense"
    /\ port_calls' = Append(port_calls, PortCall(Request(where), TRUE, reply))
    /\ events' = Append(events, "port")
    /\ dense_results' = chroma_to_results(reply)
    /\ pc' = "sparse"
    /\ UNCHANGED <<documents, scores, top_k, where, where0, depth, bm25_calls,
                   warnings, sparse_filtered, sparse_results, fused, result, error,
                   restVars>>

\* lines 224-233: collection.query raises
DenseFail ==
    /\ pc = "dense"
    /\ port_calls' = Append(port_calls, PortCall(Request(where), FALSE, <<>>))
    /\ IF RetryOnFailure(where)
       THEN /\ warnings' = Append(warnings, "dense_unfiltered")
            /\ events' = events \o <<"port", "warn_dense">>
            /\ pc' = "dense_retry"
            /\ error' = error
       ELSE /\ pc' = "raised"
            /\ error' = "VectorPortFailure"
            /\ events' = Append(events, "port")
            /\ warnings' = warnings
    /\ UNCHANGED <<documents, scores, top_k, where, where0, depth, bm25_calls,
                   dense_results, sparse_filtered, sparse_results, fused, result,
                   restVars>>

\* lines 230-231, 235: the query without "where" returns
DenseRetryOk(reply) ==
    /\ pc = "dense_retry"
    /\ port_calls' = Append(port_calls, PortCall(RetryRequest(where), TRUE, reply))
    /\ events' = Append(events, "port")
    /\ dense_results' = chroma_to_results(reply)
    /\ pc' = "sparse"
    /\ UNCHANGED <<documents, scores, top_k, where, where0, depth, bm25_calls,
                   warnings, sparse_filtered, sparse_results, fused, result, error,
                   restVars>>

\* line 231: the query without "where" raises, inside the except block
DenseRetryFail ==
    /\ pc = "dense_retry"
    /\ port_calls' = Append(port_calls, PortCall(RetryRequest(where), FALSE, <<>>))
    /\ events' = Append(events, "port")
    /\ pc' = "raised" /\ error' = "VectorPortFailure"
    /\ UNCHANGED <<documents, scores, top_k, where, where0, depth, bm25_calls,
                   warnings, dense_results, sparse_filtered, sparse_results, fused,
                   result, restVars>>

\* lines 306-342: the sparse branch and the enrichment; apply_filters raises
\* when an evaluation raises.  documents is the list of the index as the
\* BM25Index.search calls and the re-ranking writes of the branch leave it
Sparse ==
    /\ pc = "sparse"
    /\ IF Truthy(where) /\ ApplyFiltersRaises(SparseRaw(documents, scores, top_k),
                                              where.cond, documents)
       THEN /\ bm25_calls' = Append(bm25_calls,
                  [top_k |-> top_k * 10, out |-> SparseRaw(documents, scores, top_k)])
            /\ events' = Append(events, "bm25_wide")
            /\ pc' = "raised" /\ error' = "TypeError"
            /\ documents' = IndexAfterSearch(documents, scores)
            /\ UNCHANGED <<warnings, sparse_filtered, sparse_results>>
       ELSE /\ bm25_calls' = bm25_calls \o SparseCalls(documents, scores, top_k, where)
            /\ events' = events \o SparseEvents(documents, scores, top_k, where)
            /\ sparse_filtered' = IF Truthy(where)
                                  THEN SparseFiltered(documents, scores, top_k, where)
                                  ELSE <<>>
            /\ documents' = IF Truthy(where)
                            THEN ReRankWrites(IndexAfterSearch(documents, scores),
                                     KeptObjects(SparseRaw(documents, scores, top_k),
                                                 where.cond, documents))
                            ELSE IndexAfterSearch(documents, scores)
            /\ warnings' = IF SparseFallback(documents, scores, top_k, where)
                           THEN Append(warnings, "sparse_unfiltered")
                           ELSE warnings
            /\ sparse_results' =
                   Enrich(SparseResultsRaw(documents, scores, top_k, where), documents)
            /\ pc' = "fuse"
            /\ error' = error
    /\ UNCHANGED <<scores, top_k, where, where0, depth, port_calls,
                   dense_results, fused, result, restVars>>

\* the two lists handed to the fuser the other way round
FusionInputSparseFirst(dense, sparse) == <<sparse, dense>>

\* line 345: [dense_results, sparse_results]
FusionInput(dense, sparse) == <<dense, sparse>>

\* a re-run on every empty fused list, filter or not
TopLevelRerunOnEmpty(f, w) == f = <<>>

\* a search_hybrid that returns the empty fused list as it is
TopLevelRerunNever(f, w) == FALSE

\* line 348: "if not fused and where"
TopLevelRerun(f, w) == f = <<>> /\ Truthy(w)

\* lines 344-357: fuse, then either re-enter search_hybrid with where=None
\* (whose return value is returned unchanged) or return fused[:top_k]
FuseAndReturn ==
    /\ pc = "fuse"
    /\ fused' = reciprocal_rank_fusion(FusionInput(dense_results, sparse_results), RRF_K)
    /\ IF TopLevelRerun(fused', where)
       THEN /\ warnings' = Append(warnings, "hybrid_unfiltered")
            /\ events' = Append(events, "warn_hybrid")
            /\ where' = NoWhere
            /\ depth' = depth + 1
            /\ pc' = "embed"
            /\ result' = result
       ELSE /\ result' = Take(fused', top_k)
            /\ pc' = "done"
            /\ UNCHANGED <<warnings, events, where, depth>>
    /\ UNCHANGED <<documents, scores, top_k, where0, port_calls, bm25_calls,
                   dense_results, sparse_filtered, sparse_results, error,
                   restVars>>

\* the steps of a running call
Step ==
    \/ EmbedOk
    \/ \E exc \in EmbedErrors : EmbedFail(exc)
    \/ \E reply \in PortReplies(over_k) \cup StaleReplies(over_k) : DenseOk(reply)
    \/ DenseFail
    \/ \E reply \in PortReplies(over_k) : DenseRetryOk(reply)
    \/ DenseRetryFail
    \/ Sparse
    \/ FuseAndReturn

Next ==
    \/ \E tk \in 0..MaxTopK, w \in Wheres : Call(tk, w)
    \/ Step

Spec == Init /\ [][Next]_vars

(***************************************************************************)
(* Claims about search_hybrid (Spec).                                      *)
(***************************************************************************)
Last(q) == q[Len(q)]

\* the i-th item has rank i
Contiguous(list) == \A i \in 1..Len(list) : list[i].rank = i

\* C1: every ranked list the engine produces - each BM25Index.search output,
\* the re-ranked post-filter sparse list, the sparse and dense lists fed to
\* fusion, the fused list and the returned list - has ranks 1, 2, ..., n in
\* list order.
C1_RanksContiguous ==
    /\ \A c \in 1..Len(bm25_calls) : Contiguous(bm25_calls[c].out)
    /\ Contiguous(sparse_filtered)
    /\ Contiguous(sparse_results)
    /\ Contiguous(dense_results)
    /\ Contiguous(fused)
    /\ Contiguous(result)

\* a filtered call whose filter dropped the best BM25 candidate, so that the
\* survivors had to be renumbered, and that returned two results
C1_Witness ==
    /\ pc = "done" /\ depth = 0 /\ Truthy(where0)
    /\ Len(sparse_filtered) >= 2
    /\ sparse_filtered[1].doc_id # bm25_calls[1].out[1].doc_id
    /\ Len(result) = 2

\* a filter is present: the where clause is a non-empty dict
FilterPresent(w) == w.given /\ w.cond # <<>>

\* C2: if the fused list is empty and a filter was supplied, search_hybrid
\* runs once more without the filter (dense branch, sparse branch, fusion)
\* and returns that run's result; the re-run never re-runs again, and when
\* it is empty too the call returns the empty list without an error.
C2_TopLevelRerunOnce ==
    /\ depth <= 1
    /\ depth = 1 =>
          /\ FilterPresent(where0) /\ where = NoWhere
          /\ Len(SelectSeq(warnings, LAMBDA x : x = "hybrid_unfiltered")) = 1
    /\ (pc = "done" /\ depth = 0 /\ FilterPresent(where0)) => fused # <<>>
    /\ (pc = "done" /\ depth = 1) =>
          /\ error = "none"
          /\ result = Take(fused, top_k)
          /\ Last(port_calls).ok /\ Last(port_calls).where = NoWhere
          /\ Last(port_calls).n_results = top_k * 3
          /\ dense_results = chroma_to_results(Last(port_calls).reply)
          /\ Len(bm25_calls) = 3
          /\ Last(bm25_calls).top_k = top_k * 3
          /\ fused = reciprocal_rank_fusion(<<dense_results, sparse_results>>, RRF_K)

\* the re-run was taken, came back empty as well, and the call returned []
C2_Witness ==
    /\ pc = "done" /\ depth = 1 /\ error = "none"
    /\ fused = <<>> /\ result = <<>>

\* C3: when the dense branch's port call fails while a filter is present,
\* the port is called exactly once more with the same request minus the
\* filter; a successful second call supplies the dense results, a failing
\* one propagates to the caller with no third attempt.
C3_DenseRetryOnce ==
    /\ depth = 0 => Len(port_calls) <= 2
    /\ pc = "dense_retry" =>
          /\ FilterPresent(where)
          /\ Len(port_calls) = 1
          /\ ~port_calls[1].ok /\ port_calls[1].where = where
    /\ (depth = 0 /\ Len(port_calls) = 2) =>
          /\ FilterPresent(where0)
          /\ ~port_calls[1].ok /\ port_calls[1].where = where0
          /\ port_calls[2].where = NoWhere
          /\ port_calls[2].n_results = port_calls[1].n_results
          /\ IF port_calls[2].ok
             THEN /\ pc \in {"sparse", "fuse", "done", "raised"}
                  /\ dense_results = chroma_to_results(port_calls[2].reply)
                  /\ pc = "raised" => error = "TypeError"
             ELSE pc = "raised" /\ error = "VectorPortFailure"
    /\ (depth = 0 /\ Len(port_calls) = 1 /\ ~port_calls[1].ok /\ FilterPresent(where0))
          => pc = "dense_retry"

\* the filtered call failed, the unfiltered retry answered, and its answer is
\* the dense list of a call that returned
C3_Witness ==
    /\ pc = "done" /\ depth = 0
    /\ Len(port_calls) = 2 /\ ~port_calls[1].ok /\ port_calls[2].ok
    /\ Len(dense_results) = 2
    /\ result # <<>>

\* C4: when the port call fails and no filter is present, the failure
\* propagates at once: no second port call, no BM25 query, no fusion and no
\* result list.
C4_NoFilterFailureFatal ==
    /\ (depth = 0 /\ ~FilterPresent(where0) /\ port_calls # <<>> /\ ~port_calls[1].ok)
          => /\ pc = "raised" /\ error = "VectorPortFailure"
             /\ Len(port_calls) = 1
             /\ bm25_calls = <<>>
             /\ sparse_results = <<>> /\ fused = <<>> /\ result = <<>>
    \* inside the top-level re-run, which runs without the filter
    /\ (depth = 1 /\ ~Last(port_calls).ok)
          => /\ pc = "raised" /\ error = "VectorPortFailure"
             /\ ~FilterPresent(Last(port_calls).where)
             /\ Len(bm25_calls) = 2
             /\ result = <<>>

\* the only port call of an unfiltered call failed and the call raised
C4_Witness ==
    /\ pc = "raised" /\ error = "VectorPortFailure"
    /\ where0 = NoWhere /\ top_k = 2
    /\ Len(port_calls) = 1 /\ bm25_calls = <<>>

\* no candidate of the BM25 output passes the filter
NonePasses(out, cond) ==
    \A i \in 1..Len(out) :
        _evaluate_condition(FlatMeta(documents[out[i].doc_id]), cond) = "False"

SameRanking(a, b) ==
    /\ Len(a) = Len(b)
    /\ \A i \in 1..Len(a) :
          a[i].doc_id = b[i].doc_id /\ a[i].score = b[i].score /\ a[i].rank = b[i].rank

\* C5: with a filter that none of the top 10 * top_k BM25 candidates
\* satisfies, the sparse list fed to fusion is exactly the unfiltered BM25
\* result for 3 * top_k, and the fallback makes no further port call.
C5_SparseFallbackUnfiltered ==
    (pc \in {"fuse", "done"} /\ depth = 0 /\ FilterPresent(where0)
        /\ NonePasses(bm25_calls[1].out, where0.cond))
        => /\ bm25_calls[1].top_k = top_k * 10
           /\ Len(bm25_calls) = 2
           /\ bm25_calls[2].top_k = top_k * 3
           /\ bm25_calls[2].out = BM25Search(documents, scores, top_k * 3)
           /\ SameRanking(sparse_results, bm25_calls[2].out)
           /\ Last(port_calls).ok
           /\ dense_results = chroma_to_results(Last(port_calls).reply)

\* the last article alone is APAC and ranks 11th, outside the 10 candidates
\* looked at for top_k = 1: the filter leaves nothing and the three best
\* unfiltered documents are used
C5_Witness ==
    /\ pc = "fuse" /\ depth = 0 /\ top_k = 1
    /\ where0 = GivenWhere(Leaf("region", "$eq", Scalar(Str("APAC"))))
    /\ Len(bm25_calls[1].out) = 10
    /\ NonePasses(bm25_calls[1].out, where0.cond)
    /\ Len(sparse_results) = 3
    /\ sparse_results[1].region # "APAC"

\* C14: the list search_hybrid returns is the first min(top_k, n) entries
\* of the fuser's output for [dense results, sparse results], n its length:
\* at most top_k entries, ranked 1, 2, ..., and of two entries with equal
\* fused score the later one is in the dense list only if the earlier one
\* is in it too, at a better dense rank.
C14_ReturnIsFusedPrefix ==
    pc = "done" =>
        LET out == reciprocal_rank_fusion(<<dense_results, sparse_results>>, RRF_K)
        IN  /\ Len(result) = Min(top_k, Len(out))
            /\ Len(result) <= top_k
            /\ \A i \in 1..Len(result) : result[i] = out[i] /\ result[i].rank = i
            /\ \A a, b \in 1..Len(out) :
                  (/\ a < b
                   /\ ScoreCmp(out[a].score, out[b].score) = 0
                   /\ Contains(dense_results, out[b].doc_id))
                      => /\ Contains(dense_results, out[a].doc_id)
                         /\ RankIn(dense_results, out[a].doc_id)
                               < RankIn(dense_results, out[b].doc_id)

\* top_k = 1: the port's only document and the best BM25 document both
\* score 1/61; the fused list has four entries and the dense one is returned
C14_Witness ==
    /\ pc = "done" /\ depth = 0 /\ top_k = 1
    /\ Len(dense_results) = 1 /\ dense_results[1].doc_id = NumArticles
    /\ sparse_results[1].doc_id = 1
    /\ Len(fused) = 4
    /\ ScoreCmp(fused[1].score, fused[2].score) = 0
    /\ result = <<fused[1]>>
    /\ result[1].doc_id = NumArticles

\* the positions of an event in the log
Where(log, e) == {i \in 1..Len(log) : log[i] = e}

\* C15: each degraded fallback of search_hybrid is announced before it is
\* carried out.  The unfiltered BM25 query that replaces an empty filtered
\* list directly follows a "warn_sparse" signal, which directly follows the
\* filtered branch's BM25 query; the unfiltered re-run starts only after a
\* "warn_hybrid" signal.  A call that has taken a fallback goes on to return
\* a list: it ends in an exception only when the embedding or vector port
\* itself fails during the re-run.
C15_FallbackWarnsAndContinues ==
    /\ \A i \in Where(events, "bm25_over") :
          /\ i > 1 /\ events[i - 1] \in {"port", "warn_sparse"}
          /\ events[i - 1] = "warn_sparse" => (i > 2 /\ events[i - 2] = "bm25_wide")
    /\ \A i \in Where(events, "bm25_wide") :
          i < Len(events) => events[i + 1] \in {"warn_sparse", "warn_hybrid"}
    /\ Cardinality(Where(events, "warn_sparse"))
          = Len(SelectSeq(warnings, LAMBDA x : x = "sparse_unfiltered"))
    /\ Cardinality(Where(events, "warn_hybrid")) = depth
    /\ \A h \in Where(events, "warn_hybrid") :
          /\ \A i \in 1..(h - 1) : events[i] # "warn_hybrid"
          /\ \E n \in 0..3 : SubSeq(events, h + 1, Len(events))
                                = SubSeq(<<"embed", "port", "bm25_over">>, 1, n)
          /\ Len(port_calls) = Cardinality(Where(events, "port"))
    /\ (Where(events, "warn_sparse") # {} /\ depth = 0) =>
          /\ pc \in {"fuse", "done"} /\ error = "none"
          /\ SameRanking(sparse_results, Last(bm25_calls).out)
    /\ depth = 1 =>
          /\ pc \in {"embed", "dense", "sparse", "fuse", "done", "raised"}
          /\ pc = "raised" =>
                /\ error \in {"EmbeddingError", "IndexError", "VectorPortFailure"}
                /\ Last(events) \in {"embed", "port"}

\* both fallbacks in one call: the filtered sparse list was empty, the fused
\* list was empty, the re-run ran and the call returned
C15_Witness ==
    /\ pc = "done" /\ error = "none"
    /\ events = <<"embed", "port", "bm25_wide", "warn_sparse", "bm25_over",
                  "warn_hybrid", "embed", "port", "bm25_over">>
    /\ warnings = <<"sparse_unfiltered", "hybrid_unfiltered">>

\* the items of a BM25 output whose article satisfies the condition
Passing(out, cond) ==
    SelectSeq(out, LAMBDA r :
        _evaluate_condition(FlatMeta(documents[ArticleIndex(documents, r.doc_id)]), cond)
            = "True")

\* C18: with a filter that at least one of the top 10 * top_k BM25
\* candidates satisfies, the sparse list fed to fusion is the first
\* 3 * top_k filter-satisfying documents of the unfiltered BM25 top
\* 10 * top_k, in BM25 order with their BM25 scores, ranked 1, 2, ...;
\* with no filter (also in the unfiltered re-run) it is the BM25 top
\* 3 * top_k.
C18_SparseListFedToFusion ==
    pc \in {"fuse", "done"} =>
        LET wide    == BM25Search(documents, scores, top_k * 10)
            passing == Passing(wide, where0.cond)
        IN  /\ (depth = 0 /\ FilterPresent(where0) /\ passing # <<>>) =>
                  /\ Len(sparse_results) = Min(3 * top_k, Len(passing))
                  /\ \A i \in 1..Len(sparse_results) :
                        /\ sparse_results[i].doc_id = passing[i].doc_id
                        /\ sparse_results[i].score = passing[i].score
                        /\ sparse_results[i].rank = i
            /\ (depth = 1 \/ ~FilterPresent(where0)) =>
                  SameRanking(sparse_results, BM25Search(documents, scores, top_k * 3))

\* top_k = 1, region EU, scores falling with the insertion position: five
\* of the ten candidates are EU and the first three of them, articles 1, 3
\* and 5, are fed to fusion
C18_Witness ==
    /\ pc = "fuse" /\ depth = 0 /\ top_k = 1
    /\ where0 = GivenWhere(BareLeaf("region", Str("EU")))
    /\ Len(Passing(bm25_calls[1].out, where0.cond)) = 5
    /\ Len(sparse_results) = 3
    /\ sparse_results[1].doc_id = 1 /\ sparse_results[2].doc_id = 3
    /\ sparse_results[3].doc_id = 5 /\ sparse_results[3].rank = 3

\* position in port_calls of the first request of the unfiltered re-run:
\* the caller's run made one request, or two when its first one failed
FirstOfRerun == IF port_calls[1].ok THEN 2 ELSE 3

\* C19: the first vector-port request of a search_hybrid run asks for
\* 3 * top_k candidates and carries the caller's where clause as it was
\* given when a filter was supplied, and no where clause otherwise (no
\* filter, or the re-run, which is called with where = None); a run that
\* got its embedding makes such a request.
C19_FirstPortRequest ==
    /\ port_calls # <<>> =>
          /\ port_calls[1].n_results = 3 * top_k
          /\ port_calls[1].where = IF FilterPresent(where0) THEN where0 ELSE NoWhere
    /\ (depth = 0 /\ pc \in {"dense_retry", "sparse", "fuse", "done"}) => port_calls # <<>>
    /\ depth = 1 =>
          /\ FirstOfRerun <= Len(port_calls) =>
                /\ port_calls[FirstOfRerun].n_results = 3 * top_k
                /\ port_calls[FirstOfRerun].where = NoWhere
          /\ pc \in {"sparse", "fuse", "done"} => FirstOfRerun = Len(port_calls)

\* top_k = 2 with the filter region = EU and deprecated = false: the port
\* was asked for six candidates under exactly that filter and answered
C19_Witness ==
    /\ pc = "done" /\ depth = 0 /\ top_k = 2
    /\ where0 = GivenWhere(AndOf(<< Leaf("region", "$eq", Scalar(Str("EU"))),
                                    Leaf("deprecated", "$eq", Scalar(Bool(FALSE))) >>))
    /\ Len(port_calls) = 1 /\ port_calls[1].ok
    /\ port_calls[1].n_results = 6
    /\ port_calls[1].where = where0

\* the article of document d satisfies the condition
Satisfies(d, cond) ==
    _evaluate_condition(FlatMeta(documents[ArticleIndex(documents, d)]), cond) = "True"

\* the port answered every request that carried the filter with documents
\* that satisfy it
PortHonoursFilter ==
    \A c \in 1..Len(port_calls) :
        (port_calls[c].ok /\ FilterPresent(port_calls[c].where)) =>
            \A i \in 1..Len(port_calls[c].reply) :
                Satisfies(port_calls[c].reply[i].article.doc_id, port_calls[c].where.cond)

\* one of the three degraded paths was taken
FallbackTaken ==
    \/ \E i \in 1..Len(warnings) : warnings[i] \in {"dense_unfiltered", "sparse_unfiltered"}
    \/ depth = 1

\* C23: a search_hybrid call with a filter, whose first port call succeeded
\* with documents that all satisfy the filter and whose top 10 * top_k BM25
\* candidates hold at least one document that satisfies it, returns only
\* documents that satisfy the filter, having taken no fallback; and when
\* the port honours the filter, a returned document violates the filter
\* only if the dense retry without filter, the sparse fallback or the
\* top-level re-run was taken.
C23_FilteredResultsSatisfyFilter ==
    (pc = "done" /\ FilterPresent(where0) /\ PortHonoursFilter) =>
        /\ (port_calls[1].ok
              /\ Passing(BM25Search(documents, scores, top_k * 10), where0.cond) # <<>>)
             => /\ \A i \in 1..Len(result) : Satisfies(result[i].doc_id, where0.cond)
                /\ ~FallbackTaken
        /\ (\E i \in 1..Len(result) : ~Satisfies(result[i].doc_id, where0.cond))
             => FallbackTaken

\* filter region = EU, top_k = 2, scores rising with the insertion position:
\* the best BM25 candidate is the APAC article, the port answered with the
\* first article, and both returned documents are EU
C23_Witness ==
    /\ pc = "done" /\ depth = 0 /\ top_k = 2
    /\ where0 = GivenWhere(BareLeaf("region", Str("EU")))
    /\ Len(port_calls) = 1 /\ port_calls[1].ok /\ PortHonoursFilter
    /\ Len(dense_results) = 1 /\ dense_results[1].doc_id = 1
    /\ bm25_calls[1].out[1].doc_id = NumArticles
    /\ warnings = <<>>
    /\ Len(result) = 2
    /\ \A i \in 1..Len(result) : Satisfies(result[i].doc_id, where0.cond)

\* what search_hybrid(..., where = None) does once the port has answered its
\* request with the reply: the list it returns
ReturnOfUnfiltered(reply) ==
    Take(reciprocal_rank_fusion(
             FusionInput(chroma_to_results(reply),
                         Enrich(SparseResultsRaw(documents, scores, top_k, NoWhere), documents)),
             RRF_K),
         top_k)

\* C24: a call with the empty where clause {} behaves at every decision
\* point as a call with where = None: its one port request carries no
\* filter, a port failure ends the call without a retry, the sparse branch
\* makes the single BM25 query for 3 * top_k and filters nothing, no
\* warning is logged and no re-run is made; it ends as the call with
\* where = None ends on the same port answer.
C24_EmptyWhereIsNoWhere ==
    where0 = GivenWhere(<<>>) =>
        /\ Len(port_calls) <= 1
        /\ \A c \in 1..Len(port_calls) :
              /\ port_calls[c].where = NoWhere
              /\ port_calls[c].n_results = Request(NoWhere).n_results
              /\ ~port_calls[c].ok =>
                    (pc = "raised" /\ error = "VectorPortFailure" /\ bm25_calls = <<>>)
        /\ pc \in {"fuse", "done"} =>
              /\ Len(bm25_calls) = 1
              /\ bm25_calls[1].top_k = 3 * top_k
              /\ sparse_filtered = <<>>
              /\ SameRanking(sparse_results, BM25Search(documents, scores, 3 * top_k))
        /\ depth = 0 /\ warnings = <<>>
        /\ \A i \in 1..Len(events) : events[i] \in {"embed", "port", "bm25_over"}
        /\ pc = "done" => result = ReturnOfUnfiltered(port_calls[1].reply)
        /\ pc = "raised" =>
              error \in {"EmbeddingError", "IndexError", "VectorPortFailure"}

\* where = {} with top_k = 2: one unfiltered request for six candidates,
\* one BM25 query for six, and two results returned
C24_Witness ==
    /\ pc = "done" /\ top_k = 2
    /\ where0 = GivenWhere(<<>>)
    /\ Len(port_calls) = 1 /\ port_calls[1].where = NoWhere /\ port_calls[1].n_results = 6
    /\ Len(bm25_calls) = 1 /\ bm25_calls[1].top_k = 6
    /\ Len(result) = 2

(***************************************************************************)
(* SpecLive: Spec, with fairness for the steps of the running call.  The   *)
(* interpreter runs search_hybrid to its end: every call it makes          *)
(* (embed_query, collection.query, BM25Index.search) returns or raises.    *)
(* Every action of Step moves pc and every position of a running call has  *)
(* an action of Step that is enabled, so the steps of the running call are *)
(* the steps of Next that move pc away from a position of Running.         *)
(***************************************************************************)
Positions == {"idle", "embed", "dense", "dense_retry", "sparse", "fuse", "done", "raised"}
Running   == {"embed", "dense", "dense_retry", "sparse", "fuse"}

Advance == pc \in Running /\ pc' \in Positions /\ pc' # pc

SpecLive == Init /\ [][Next]_vars /\ WF_pc(Advance)

\* C25: a search_hybrid call ends, by a return or by an exception, whatever
\* the vector port does (answers, answers nothing, raises), and makes at
\* most three port calls: a third one only in the re-run, after a filtered
\* request that failed and its retry without the filter.
C25_TerminatesWithinThreePortCalls ==
    /\ [](/\ Len(port_calls) <= 3
          /\ Len(port_calls) = 3 =>
                /\ depth = 1
                /\ ~port_calls[1].ok /\ port_calls[1].where = where0
                /\ port_calls[2].ok /\ port_calls[2].where = NoWhere
                /\ port_calls[3].where = NoWhere)
    /\ (pc # "idle") ~> (pc \in {"done", "raised"})

\* a call with top_k = 0 that made all three port calls and returned
C25_Witness ==
    /\ pc = "done" /\ depth = 1
    /\ Len(port_calls) = 3
    /\ ~port_calls[1].ok /\ port_calls[2].ok /\ port_calls[3].ok
    /\ warnings = <<"dense_unfiltered", "sparse_unfiltered", "hybrid_unfiltered">>

(***************************************************************************)
(* SpecSession: up to MaxCalls queries, one after the other, against the   *)
(* index (bm_index, documents) built once.  A query is search_hybrid, cut  *)
(* at the same points as in Spec, or search_sparse.  What a query leaves   *)
(* behind for the next one is the index: documents, as its searches and    *)
(* its re-ranking writes left it, and bm_index, from which the scores of   *)
(* the next query are taken.  Queries that run at the same time are the    *)
(* subject of SpecOverlap.                                                 *)
(***************************************************************************)
InitSession ==
    /\ pc = "idle"
    /\ documents = Corpus
    /\ bm_index = SessionIndex
    /\ bm_query = <<>> /\ bm_top_k = 0 /\ bm_results = <<"unset">>
    /\ scores = [i \in Articles |-> 0]
    /\ top_k = 0 /\ where = NoWhere /\ where0 = NoWhere /\ depth = 0
    /\ port_calls = <<>> /\ bm25_calls = <<>> /\ warnings = <<>>
    /\ dense_results = <<>> /\ sparse_filtered = <<>> /\ sparse_results = <<>>
    /\ fused = <<>> /\ result = <<>> /\ error = "none" /\ events = <<>>
    /\ FilterIdle /\ RRFIdle /\ TokIdle /\ SessionIdle /\ StoreIdle
    /\ ConvIdle /\ RetryIdle

\* the caller of the session invokes search_hybrid(collection, bm25_index,
\* query, top_k, where) once its previous query has ended (callers that do
\* not wait for one another are in SpecOverlap); scores is what
\* self._bm25.get_scores will give for the query
SessionCall(q, tk, w) ==
    /\ pc = "idle" /\ calls_done < MaxCalls
    /\ bm_query' = q
    /\ scores' = get_scores(bm_index.bm25, tokenize(q), Len(bm_index.doc_ids))
    /\ top_k' = tk /\ where' = w /\ where0' = w
    /\ pc' = "embed"
    /\ UNCHANGED <<documents, depth, port_calls, bm25_calls, warnings, dense_results,
                   sparse_filtered, sparse_results, fused, result, error, events,
                   bm_index, bm_top_k, bm_results, filterVars, rrfVars, tokVars,
                   sessionVars, storeVars, convVars, retryVars>>

\* search_sparse(bm25_index, query, top_k), lines 238-274
SearchSparse(q, tk) ==
    /\ pc = "idle" /\ calls_done < MaxCalls
    /\ bm_query' = q
    /\ scores' = get_scores(bm_index.bm25, tokenize(q), Len(bm_index.doc_ids))
    /\ top_k' = tk
    /\ bm25_calls' = << [top_k |-> tk, out |-> BM25Search(documents, scores', tk)] >>
    /\ events' = <<"bm25">>
    /\ result' = Enrich(BM25Search(documents, scores', tk), documents)
    /\ pc' = "sparse_done"
    /\ documents' = IndexAfterSearch(documents, scores')
    /\ UNCHANGED <<where, where0, depth, port_calls, warnings,
                   dense_results, sparse_filtered, sparse_results, fused, error,
                   bm_index, bm_top_k, bm_results, filterVars, rrfVars, tokVars,
                   sessionVars, storeVars, convVars, retryVars>>

\* the arguments of the running query are those of the recorded call c
SameArgs(c) == c.query = bm_query /\ c.top_k = top_k /\ c.where = where0

\* the query hands its outcome to the caller; its locals are dropped
Return ==
    /\ pc \in {"done", "raised", "sparse_done"}
    /\ calls_done' = calls_done + 1
    /\ first_return' =
           IF first_return = <<>> /\ pc = "done"
           THEN << [query |-> bm_query, top_k |-> top_k, where |-> where0,
                    port_calls |-> port_calls, result |-> result] >>
           ELSE first_return
    /\ between' =
           IF first_return # <<>> /\ (pc # "done" \/ ~SameArgs(first_return[1]))
           THEN between + 1
           ELSE between
    /\ pc' = "idle"
    /\ bm_query' = <<>>
    /\ scores' = [i \in Articles |-> 0]
    /\ top_k' = 0 /\ where' = NoWhere /\ where0' = NoWhere /\ depth' = 0
    /\ port_calls' = <<>> /\ bm25_calls' = <<>> /\ warnings' = <<>>
    /\ dense_results' = <<>> /\ sparse_filtered' = <<>> /\ sparse_results' = <<>>
    /\ fused' = <<>> /\ result' = <<>> /\ error' = "none" /\ events' = <<>>
    /\ UNCHANGED <<documents, bm_index, bm_top_k, bm_results, frames, filterVars,
                   rrfVars, tokVars, storeVars, convVars, retryVars>>

NextSession ==
    \/ \E q \in SessionQueries, tk \in SessionTopKs, w \in SessionWheres : SessionCall(q, tk, w)
    \/ \E q \in SessionQueries, tk \in SessionTopKs : SearchSparse(q, tk)
    \/ EmbedOk
    \/ \E exc \in EmbedErrors : EmbedFail(exc)
    \/ \E reply \in SessionReplies(over_k) : DenseOk(reply)
    \/ DenseFail
    \/ \E reply \in SessionReplies(over_k) : DenseRetryOk(reply)
    \/ DenseRetryFail
    \/ Sparse
    \/ FuseAndReturn
    \/ Return

SpecSession == InitSession /\ [][NextSession]_vars

(***************************************************************************)
(* Claims about repeated queries (SpecSession).                            *)
(***************************************************************************)
\* the vector port answered identical requests identically
PortConsistent(log) ==
    \A i, j \in 1..Len(log) :
        (log[i].n_results = log[j].n_results /\ log[i].where = log[j].where)
            => (log[i].ok = log[j].ok /\ log[i].reply = log[j].reply)

\* C13: a search_hybrid call that returns, made with the query, top_k and
\* filter of an earlier call on the same index, the vector port having
\* answered identical requests identically, returns the list the earlier
\* call returned (same documents, order, scores, ranks), whatever queries
\* ran in between.
C13_RepeatedQuerySameResult ==
    (/\ pc = "done"
     /\ first_return # <<>>
     /\ SameArgs(first_return[1])
     /\ PortConsistent(first_return[1].port_calls \o port_calls))
        => result = first_return[1].result

\* the third query repeats the first one, "error" with top_k = 2 filtered
\* to region EU: the BM25 scores tie, the port answered with the second and
\* the first article, and both calls returned the same two documents in the
\* same order; a different query ran in between
C13_Witness ==
    /\ pc = "done" /\ calls_done = 2 /\ between = 1
    /\ first_return # <<>>
    /\ SameArgs(first_return[1])
    /\ PortConsistent(first_return[1].port_calls \o port_calls)
    /\ bm_query = <<"e", "r", "r", "o", "r">>
    /\ Truthy(where0) /\ top_k = 2
    /\ Len(port_calls) = 1 /\ Len(port_calls[1].reply) = 2
    /\ Len(result) = 2
    /\ result[1].doc_id # result[2].doc_id
    /\ result = first_return[1].result

(***************************************************************************)
(* SpecRebuild: search_hybrid calls (top_k = 1) by a process that loaded   *)
(* the collection and built its BM25Index, while another process runs      *)
(* index_all on the same CHROMA_PERSIST_DIR.  index_all is cut at its      *)
(* calls into the store; the port answers a query from the collection as   *)
(* it is at that moment, or raises.                                        *)
(*   rebuild_pc: idle -> deleted -> created -> upserting -> done | failed  *)
(***************************************************************************)
InitRebuild ==
    /\ pc = "idle"
    /\ documents = Corpus
    /\ scores = [i \in Articles |-> NumArticles - i]
    /\ top_k = 0 /\ where = NoWhere /\ where0 = NoWhere /\ depth = 0
    /\ port_calls = <<>> /\ bm25_calls = <<>> /\ warnings = <<>>
    /\ dense_results = <<>> /\ sparse_filtered = <<>> /\ sparse_results = <<>>
    /\ fused = <<>> /\ result = <<>> /\ error = "none" /\ events = <<>>
    /\ FilterIdle /\ RRFIdle /\ TokIdle /\ BM25Idle /\ SessionIdle /\ StoreIdle
    /\ ConvIdle /\ RetryIdle

\* lines 59-64: client.delete_collection(name=COLLECTION_NAME)
RebuildDelete ==
    /\ rebuild_pc = "idle"
    /\ collection' = [exists |-> FALSE, ids |-> {}, metas |-> <<>>]
    /\ rebuild_pc' = "deleted"
    /\ UNCHANGED <<hybridVars, unitVars, sessionVars>>

\* lines 65-68: client.create_collection(name=COLLECTION_NAME, ...)
RebuildCreate ==
    /\ rebuild_pc = "deleted"
    /\ collection' = [exists |-> TRUE, ids |-> {}, metas |-> <<>>]
    /\ rebuild_pc' = "created"
    /\ UNCHANGED <<hybridVars, unitVars, sessionVars>>

\* lines 71-73: embed_documents(texts) returns
RebuildEmbedOk ==
    /\ rebuild_pc = "created"
    /\ rebuild_pc' = "upserting"
    /\ UNCHANGED <<collection, hybridVars, unitVars, sessionVars>>

\* line 73: embed_documents raises and index_all ends; the collection stays
\* as created
RebuildEmbedFail ==
    /\ rebuild_pc = "created"
    /\ rebuild_pc' = "failed"
    /\ UNCHANGED <<collection, hybridVars, unitVars, sessionVars>>

\* lines 77-100: one collection.upsert of the next batch; after the last
\* one, lines 106-110 build the new BM25Index and return
RebuildUpsert ==
    /\ rebuild_pc = "upserting"
    /\ LET upto == {i \in Articles : i <= Cardinality(collection.ids) + UpsertBatch}
       IN  collection' = [collection EXCEPT
                              !.ids = upto,
                              !.metas = [i \in upto |-> IndexMeta(Corpus[i])]]
    /\ rebuild_pc' = IF collection'.ids = Articles THEN "done" ELSE "upserting"
    /\ UNCHANGED <<hybridVars, unitVars, sessionVars>>

NextRebuild ==
    \/ \E w \in RebuildWheres : Call(1, w)
    \/ EmbedOk
    \/ \E exc \in EmbedErrors : EmbedFail(exc)
    \/ \E reply \in StoreReplies(over_k) : DenseOk(reply)
    \/ DenseFail
    \/ \E reply \in StoreReplies(over_k) : DenseRetryOk(reply)
    \/ DenseRetryFail
    \/ Sparse
    \/ FuseAndReturn
    \/ RebuildDelete
    \/ RebuildCreate
    \/ RebuildEmbedOk
    \/ RebuildEmbedFail
    \/ RebuildUpsert

SpecRebuild == InitRebuild /\ [][NextRebuild]_vars

(***************************************************************************)
(* Claims about a rebuild during a query (SpecRebuild).                    *)
(***************************************************************************)
\* C17: a query that runs while index_all rebuilds the indices sees one
\* consistent snapshot: every request of its dense branch is answered from
\* the complete collection, the one its BM25Index was built from, never
\* from a deleted, an empty or a partly upserted one.
C17_QuerySeesOneSnapshot ==
    \A i \in 1..Len(port_calls) :
        /\ port_calls[i].seen.exists
        /\ port_calls[i].seen.ids = {documents[a].doc_id : a \in 1..Len(documents)}

\* C28: for every article, the record apply_filters flattens from it has
\* the keys of the record index_all stored for it in the collection
\* (region, product_version, category, deprecated, effective_date,
\* error_codes_str) and the same value under each, error_codes_str being
\* the error codes joined by commas.
C28_LocalMetaEqualsStoredMeta ==
    \A i \in collection.ids :
        LET a == documents[ArticleIndex(documents, i)]
        IN  /\ DOMAIN FlatMeta(a) = DOMAIN collection.metas[i]
            /\ DOMAIN FlatMeta(a) = {"region", "product_version", "category", "deprecated",
                                     "effective_date", "error_codes_str"}
            /\ \A f \in DOMAIN FlatMeta(a) : FlatMeta(a)[f] = collection.metas[i][f]
            /\ FlatMeta(a).error_codes_str = Str(JoinComma(a.error_codes))

\* index_all has rebuilt the collection and a query filtered by region has
\* applied the local filter; the third article, with two error codes, is
\* stored and flattened with error_codes_str "E-4012,E-5001"
C28_Witness ==
    /\ rebuild_pc = "done" /\ pc = "fuse"
    /\ Truthy(where) /\ sparse_filtered # <<>>
    /\ collection.ids = Articles
    /\ collection.metas[3].error_codes_str = Str("E-4012,E-5001")
    /\ FlatMeta(documents[3]).error_codes_str = Str("E-4012,E-5001")
    /\ FlatMeta(documents[3]) = collection.metas[3]

(***************************************************************************)
(* SpecFusion: reciprocal_rank_fusion called on its own (as in SpecRRF) or *)
(* by search_hybrid (as in Spec).  A behaviour starts in an initial state  *)
(* of one of the two and takes that specification's steps.                 *)
(***************************************************************************)
InitFusion == InitRRF \/ Init

NextFusion ==
    \/ documents = <<>> /\ NextRRF
    \/ documents # <<>> /\ Next

SpecFusion == InitFusion /\ [][NextFusion]_vars

(***************************************************************************)
(* Claims about the display fields of fused documents (SpecFusion).        *)
(***************************************************************************)
\* the item of document d met first when the lists are scanned in order
FirstCopy(lists, d) == Flatten(lists, 1)[FirstPos(lists, d)]

\* the item of document d in a list that contains it
CopyIn(list, d) == list[CHOOSE i \in 1..Len(list) : list[i].doc_id = d]

\* C21: every document in the output of reciprocal_rank_fusion carries, in
\* all fields other than score and rank, the values of its first occurrence
\* in the scan of the input lists (and has no other fields); hence a
\* document that search_hybrid got from both branches is fused and returned
\* with the dense branch's copy, and where the two copies differ not with
\* the sparse one.
C21_DisplayFromFirstOccurrence ==
    /\ fusedOut[1] = "ok" =>
          \A a \in 1..Len(FusedList) :
              /\ DocData(FusedList[a]) = DocData(FirstCopy(result_lists, FusedList[a].doc_id))
              /\ DOMAIN FusedList[a]
                    = DOMAIN FirstCopy(result_lists, FusedList[a].doc_id) \cup {"score", "rank"}
    /\ pc = "done" =>
          /\ \A a \in 1..Len(fused) :
                DocData(fused[a])
                    = DocData(FirstCopy(<<dense_results, sparse_results>>, fused[a].doc_id))
          /\ \A i \in 1..Len(result) :
                (Contains(dense_results, result[i].doc_id)
                    /\ Contains(sparse_results, result[i].doc_id))
                  => LET d == CopyIn(dense_results, result[i].doc_id)
                         s == CopyIn(sparse_results, result[i].doc_id)
                     IN  /\ DocData(result[i]) = DocData(d)
                         /\ DocData(d) # DocData(s) => DocData(result[i]) # DocData(s)

\* the collection holds the first article under its earlier title; both
\* branches found it and the call returned it with the title of the
\* collection, not with the one of the articles file
C21_Witness ==
    /\ pc = "done" /\ depth = 0
    /\ Contains(dense_results, 1) /\ Contains(sparse_results, 1)
    /\ CopyIn(sparse_results, 1).title = <<"title", 1>>
    /\ result # <<>> /\ result[1].doc_id = 1
    /\ result[1].title = <<"stored title", 1>>

(***************************************************************************)
(* SpecEmbed: search_hybrid as in Spec, with the call embed_query(query)   *)
(* of search_dense line 213 spelled out: embed_query returns what          *)
(* the first item of the list _embed_with_retry returns, and raises what   *)
(* it raises.  Each attempt is one call of embeddings.create, which raises *)
(* or returns a response whose data holds the embedding or is empty.       *)
(***************************************************************************)
_MAX_RETRIES  == 3
_BACKOFF_BASE == 1

\* a loop that gives up only after the range is exhausted
GivesUpLate(a) == a = _MAX_RETRIES

\* embeddings.py line 36: if attempt == _MAX_RETRIES - 1: raise
GivesUp(a) == a = _MAX_RETRIES - 1

\* line 38: the argument of time.sleep
Backoff(a) == _BACKOFF_BASE * (2 ^ a)

\* search_dense line 213 calls embed_query: the loop of line 31 starts
EmbedStart ==
    /\ pc = "embed" /\ embed_for # depth
    /\ embed_pc' = "trying" /\ attempt' = 0
    /\ tries' = <<>> /\ sleeps' = <<>>
    /\ embed_for' = depth
    /\ UNCHANGED <<hybridVars, filterVars, rrfVars, tokVars, bmVars, convVars,
                   sessionVars, storeVars>>

\* lines 32-34: embeddings.create returns, and _embed_with_retry returns
\* the list of the embeddings in response.data
AttemptOk(has_data) ==
    /\ embed_pc = "trying" /\ attempt < _MAX_RETRIES
    /\ tries' = Append(tries, "ok")
    /\ embed_pc' = IF has_data THEN "returned" ELSE "returned_empty"
    /\ UNCHANGED <<attempt, sleeps, embed_for, hybridVars, filterVars, rrfVars,
                   tokVars, bmVars, convVars, sessionVars, storeVars>>

\* lines 35-38: embeddings.create raises
AttemptFail ==
    /\ embed_pc = "trying" /\ attempt < _MAX_RETRIES
    /\ tries' = Append(tries, "fail")
    /\ IF GivesUp(attempt)
       THEN /\ embed_pc' = "raised"
            /\ UNCHANGED <<attempt, sleeps>>
       ELSE /\ sleeps' = Append(sleeps, Backoff(attempt))
            /\ attempt' = attempt + 1
            /\ embed_pc' = embed_pc
    /\ UNCHANGED <<embed_for, hybridVars, filterVars, rrfVars, tokVars, bmVars,
                   convVars, sessionVars, storeVars>>

\* embeddings.py line 70: [0] of the list, and embed_query returns to
\* search_dense
EmbedReturns == embed_pc = "returned" /\ embed_for = depth /\ EmbedOk

\* embeddings.py line 70: [0] of the empty list raises IndexError, which
\* leaves embed_query and search_dense
EmbedIndexError ==
    embed_pc = "returned_empty" /\ embed_for = depth /\ EmbedFail("IndexError")

\* the exception of the last attempt leaves embed_query and search_dense
EmbedRaises ==
    embed_pc = "raised" /\ embed_for = depth /\ EmbedFail("EmbeddingError")

NextEmbed ==
    \/ \E tk \in 0..MaxTopK, w \in Wheres : Call(tk, w)
    \/ EmbedStart
    \/ \E has_data \in BOOLEAN : AttemptOk(has_data)
    \/ AttemptFail
    \/ EmbedReturns
    \/ EmbedIndexError
    \/ EmbedRaises
    \/ \E reply \in PortReplies(over_k) \cup StaleReplies(over_k) : DenseOk(reply)
    \/ DenseFail
    \/ \E reply \in PortReplies(over_k) : DenseRetryOk(reply)
    \/ DenseRetryFail
    \/ Sparse
    \/ FuseAndReturn

SpecEmbed == Init /\ [][NextEmbed]_vars

(***************************************************************************)
(* Claims about _embed_with_retry inside search_dense (SpecEmbed).         *)
(***************************************************************************)
FailuresOf(t) == Cardinality({i \in 1..Len(t) : t[i] = "fail"})

\* C30: one call of _embed_with_retry makes at most 3 attempts; an attempt
\* is made only after failures, so the first success ends the call, which
\* returns exactly then; it has slept 1 s after the first failure and 2 s
\* after the second and nothing after the third, and raises exactly when
\* the third attempt has failed.  Once it has raised, search_dense makes no
\* call of the vector port and logs no warning: the search ends with the
\* embedding error, with or without a where clause.
C30_EmbedRetriesThenPropagates ==
    LET n == Len(tries) IN
    /\ n <= 3
    /\ \A i \in 1..(n - 1) : tries[i] = "fail"
    /\ (embed_pc \in {"returned", "returned_empty"}) <=> (n >= 1 /\ tries[n] = "ok")
    /\ (embed_pc = "raised") <=> (n = 3 /\ tries[3] = "fail")
    /\ sleeps = Take(<<1, 2>>, IF FailuresOf(tries) < 2 THEN FailuresOf(tries) ELSE 2)
    /\ embed_pc = "raised" =>
          /\ pc \in {"embed", "raised"}
          /\ pc = "raised" => /\ error = "EmbeddingError"
                              /\ events[Len(events)] = "embed"
          /\ embed_for = 0 => port_calls = <<>> /\ warnings = <<>>

\* three failed attempts in a search with a filter: slept 1 s and 2 s, the
\* search raised the embedding error and the vector port was never called
C30_Witness ==
    /\ Truthy(where0) /\ depth = 0
    /\ tries = <<"fail", "fail", "fail">>
    /\ sleeps = <<1, 2>>
    /\ embed_pc = "raised"
    /\ pc = "raised" /\ error = "EmbeddingError"
    /\ port_calls = <<>> /\ warnings = <<>>

(***************************************************************************)
(* SpecCorpus: search_hybrid as in Spec, on an index built from the first  *)
(* 1, 2 or NumArticles articles.  (BM25Index is not built from an empty    *)
(* list.)  The vector port answers from its own collection, whatever the   *)
(* index holds.                                                            *)
(***************************************************************************)
CorpusSizes == {1, 2, NumArticles}

InitCorpus ==
    /\ pc = "idle"
    /\ \E n \in CorpusSizes, sv \in ScoreVectors :
          documents = Take(Corpus, n) /\ scores = Take(sv, n)
    /\ top_k = 0 /\ where = NoWhere /\ where0 = NoWhere /\ depth = 0
    /\ port_calls = <<>> /\ bm25_calls = <<>> /\ warnings = <<>>
    /\ dense_results = <<>> /\ sparse_filtered = <<>> /\ sparse_results = <<>>
    /\ fused = <<>> /\ result = <<>> /\ error = "none" /\ events = <<>>
    /\ FilterIdle /\ RRFIdle /\ TokIdle /\ BM25Idle /\ SessionIdle /\ StoreIdle
    /\ ConvIdle /\ RetryIdle

SpecCorpus == InitCorpus /\ [][Next]_vars

(***************************************************************************)
(* Claims about search_hybrid on corpora of any size (SpecCorpus).         *)
(***************************************************************************)
\* C22: in a call with top_k >= 1 on a non-empty corpus the sparse list fed
\* to fusion is not empty, with or without a filter; so the fused list is
\* not empty, the top-level re-run without the filter is not taken, and a
\* call that returns returns at least one result, whatever the vector port
\* answered.
C22_SparseNeverEmpty ==
    (top_k >= 1 /\ documents # <<>>) =>
        /\ pc \in {"fuse", "done"} => sparse_results # <<>>
        /\ pc = "fuse" =>
              ~TopLevelRerun(reciprocal_rank_fusion(FusionInput(dense_results, sparse_results),
                                                    RRF_K), where)
        /\ pc = "done" => (fused # <<>> /\ Len(result) >= 1)
        /\ depth = 0
        /\ \A i \in 1..Len(warnings) : warnings[i] # "hybrid_unfiltered"
        /\ Where(events, "warn_hybrid") = {}

\* one EU article, top_k = 1, filter region = APAC, and a port that finds
\* nothing: the filtered sparse list is empty, the unfiltered one is used
\* and the call returns the article
C22_Witness ==
    /\ pc = "done" /\ depth = 0 /\ top_k = 1
    /\ Len(documents) = 1
    /\ where0 = GivenWhere(Leaf("region", "$eq", Scalar(Str("APAC"))))
    /\ Len(port_calls) = 1 /\ port_calls[1].ok /\ dense_results = <<>>
    /\ sparse_filtered = <<>>
    /\ warnings = <<"sparse_unfiltered">>
    /\ Len(result) = 1 /\ result[1].doc_id = 1

(***************************************************************************)
(* SpecOverlap: NumCallers callers share the index (bm_index, documents)   *)
(* built once and run queries at the same time.  A query is cut at every   *)
(* statement that reads the index or writes to a dict, and the steps of    *)
(* the callers interleave in any order.  frames[c] holds the locals of the *)
(* query caller c is running:                                              *)
(*   kind       "hybrid" (search_hybrid), "sparse" (search_sparse) or      *)
(*              "bm25" (BM25Index.search called directly)                  *)
(*   filtering  the query is in the branch "if where:" of line 307         *)
(*   asked      argument top_k of its last BM25Index.search call           *)
(*   raw        the dicts that call made, in the order of the list         *)
(*   kept       sparse_filtered, as references to dicts                    *)
(*   next       iterations of the loop of lines 313-314 made so far        *)
(*   cut        sparse_results_raw, as references to dicts                 *)
(* A reference is [of |-> "result", at |-> i], the dict raw[i] of the      *)
(* query, or [of |-> "article", at |-> a], the dict documents[a] of the    *)
(* index.  search_dense is cut where it waits: inside each                 *)
(* embeddings.create request, inside each time.sleep between two attempts, *)
(* and inside each collection.query; attempt is the loop variable of       *)
(* _embed_with_retry.  Log lines are left out.                             *)
(***************************************************************************)
NumCallers      == 2    \* callers that may be inside a query at once
MaxOverlapCalls == 2    \* queries started in all
Callers         == 1..NumCallers

\* search_sparse and BM25Index.search are called with "E-4012" or "error",
\* search_hybrid with "E-4012": filtered to region EU the re-ranking changes
\* the ranks of the third, fifth, seventh and ninth candidate, filtered to
\* region APAC nothing is left and the fallback search runs
OverlapQueries       == { <<"E", "-", "4", "0", "1", "2">>, <<"e", "r", "r", "o", "r">> }
OverlapHybridQueries == { <<"E", "-", "4", "0", "1", "2">> }
OverlapTopKs         == {0, 1}

\* the port answers nothing, or the second and the first article
OverlapReplies(n) == {r \in SessionReplies(n) : Len(r) # 1}

IdleFrame ==
    [pc |-> "idle", kind |-> "none", query |-> <<>>, top_k |-> 0, where |-> NoWhere,
     filtering |-> FALSE, attempt |-> 0, asked |-> 0, dense |-> <<>>, raw |-> <<>>,
     kept |-> <<>>,
     next |-> 0, cut |-> <<>>, sparse |-> <<>>, out |-> <<>>]

\* a frame of search_hybrid / search_sparse / BM25Index.search at its start
NewFrame(kind, q, tk, w) ==
    [IdleFrame EXCEPT !.pc = IF kind = "hybrid" THEN "embed" ELSE "search",
                      !.kind = kind, !.query = q, !.top_k = tk, !.where = w,
                      !.filtering = (kind = "hybrid" /\ Truthy(w))]

overlapRest == <<filterVars, rrfVars, tokVars, convVars, retryVars, storeVars,
                 bm_query, bm_top_k, bm_results, first_return, between,
                 pc, scores, top_k, where, where0, depth, port_calls, bm25_calls,
                 warnings, dense_results, sparse_filtered, sparse_results,
                 fused, result, error, events>>

InitOverlap ==
    /\ documents = Corpus
    /\ bm_index = SessionIndex
    /\ frames = [c \in Callers |-> IdleFrame]
    /\ calls_done = 0 /\ first_return = <<>> /\ between = 0
    /\ bm_query = <<>> /\ bm_top_k = 0 /\ bm_results = <<"unset">>
    /\ pc = "idle" /\ scores = <<>> /\ top_k = 0
    /\ where = NoWhere /\ where0 = NoWhere /\ depth = 0
    /\ port_calls = <<>> /\ bm25_calls = <<>> /\ warnings = <<>>
    /\ dense_results = <<>> /\ sparse_filtered = <<>> /\ sparse_results = <<>>
    /\ fused = <<>> /\ result = <<>> /\ error = "none" /\ events = <<>>
    /\ FilterIdle /\ RRFIdle /\ TokIdle /\ StoreIdle /\ ConvIdle /\ RetryIdle

\* queries that have started and not yet handed their outcome to the caller
InFlight == Cardinality({c \in Callers : frames[c].pc # "idle"})

\* caller c starts a query while the other callers may be inside theirs
OverlapCall(c, kind, q, tk, w) ==
    /\ frames[c].pc = "idle"
    /\ calls_done + InFlight < MaxOverlapCalls
    /\ frames' = [frames EXCEPT ![c] = NewFrame(kind, q, tk, w)]
    /\ UNCHANGED <<documents, bm_index, calls_done, overlapRest>>

\* embeddings.py lines 33-34, 70 (search_dense line 213): the request of
\* this attempt returns; embed_query takes [0] of the list of embeddings,
\* which raises IndexError when the response held none
OverlapAttemptOk(c, has_data) ==
    /\ frames[c].pc = "embed"
    /\ frames' = [frames EXCEPT ![c].pc = IF has_data THEN "dense" ELSE "raised"]
    /\ UNCHANGED <<documents, bm_index, calls_done, overlapRest>>

\* embeddings.py lines 35-38: the request of this attempt raises; the last
\* attempt re-raises, an earlier one goes to time.sleep
OverlapAttemptFail(c) ==
    /\ frames[c].pc = "embed"
    /\ frames' = [frames EXCEPT ![c].pc = IF GivesUp(frames[c].attempt)
                                          THEN "raised" ELSE "sleep"]
    /\ UNCHANGED <<documents, bm_index, calls_done, overlapRest>>

\* embeddings.py line 38: time.sleep(_BACKOFF_BASE * 2 ** attempt) returns
\* and the loop goes to its next attempt
OverlapWake(c) ==
    /\ frames[c].pc = "sleep"
    /\ frames' = [frames EXCEPT ![c].attempt = @ + 1, ![c].pc = "embed"]
    /\ UNCHANGED <<documents, bm_index, calls_done, overlapRest>>

\* search_dense lines 224, 235: collection.query returns
OverlapDense(c, reply) ==
    /\ frames[c].pc = "dense"
    /\ frames' = [frames EXCEPT ![c].dense = chroma_to_results(reply),
                                ![c].pc = "search"]
    /\ UNCHANGED <<documents, bm_index, calls_done, overlapRest>>

\* search_dense lines 224-233: collection.query raises; with a filter the
\* handler goes on to the request without it, else the exception leaves
OverlapDenseFail(c) ==
    /\ frames[c].pc = "dense"
    /\ frames' = [frames EXCEPT ![c].pc = IF RetryOnFailure(frames[c].where)
                                          THEN "dense_retry" ELSE "raised"]
    /\ UNCHANGED <<documents, bm_index, calls_done, overlapRest>>

\* search_dense lines 230-231, 235: the query without "where" returns
OverlapDenseRetry(c, reply) ==
    /\ frames[c].pc = "dense_retry"
    /\ frames' = [frames EXCEPT ![c].dense = chroma_to_results(reply),
                                ![c].pc = "search"]
    /\ UNCHANGED <<documents, bm_index, calls_done, overlapRest>>

\* search_dense line 231: the query without "where" raises
OverlapDenseRetryFail(c) ==
    /\ frames[c].pc = "dense_retry"
    /\ frames' = [frames EXCEPT ![c].pc = "raised"]
    /\ UNCHANGED <<documents, bm_index, calls_done, overlapRest>>

\* argument top_k of the BM25Index.search call the frame is about to make:
\* line 308, line 321 / 323, search_sparse line 253, or the caller's own
SearchArg(fr) ==
    IF fr.kind # "hybrid" THEN fr.top_k
    ELSE IF fr.filtering THEN fr.top_k * 10
    ELSE fr.top_k * 3

\* references to all the dicts of a list of n results
AllResults(n) == [i \in 1..n |-> [of |-> "result", at |-> i]]

\* BM25Index.search(query, top_k) on the shared index: reads _doc_ids and
\* _bm25 and makes new dicts
OverlapSearch(c) ==
    LET fr  == frames[c]
        out == BM25Index_search(bm_index, fr.query, SearchArg(fr))[2]
        sc  == get_scores(bm_index.bm25, tokenize(fr.query), Len(bm_index.doc_ids))
    IN  /\ fr.pc = "search"
        /\ bm_index' = [bm_index EXCEPT !.doc_ids = IndexAfterSearch(@, sc)]
        /\ frames' = [frames EXCEPT ![c] =
               [fr EXCEPT !.raw = out, !.asked = SearchArg(fr),
                          !.cut = IF fr.filtering THEN <<>> ELSE AllResults(Len(out)),
                          !.out = IF fr.kind = "bm25" THEN out ELSE <<>>,
                          !.pc = IF fr.kind = "bm25" THEN "done"
                                 ELSE IF fr.filtering THEN "filter"
                                 ELSE "enrich"]]
        /\ UNCHANGED <<documents, calls_done, overlapRest>>

\* lines 309-310: articles_by_id is read from bm25_index.documents and
\* apply_filters returns the list of the dicts it keeps, or raises
OverlapFilter(c) ==
    LET fr == frames[c]
    IN  /\ fr.pc = "filter"
        /\ frames' = [frames EXCEPT ![c] =
               IF ApplyFiltersRaises(fr.raw, fr.where.cond, documents)
               THEN [fr EXCEPT !.pc = "raised"]
               ELSE [fr EXCEPT !.kept = KeptObjects(fr.raw, fr.where.cond, documents),
                               !.next = 0, !.pc = "rerank"]]
        /\ UNCHANGED <<documents, bm_index, calls_done, overlapRest>>

\* item["rank"] = new_rank on a dict
SetRank(item, new_rank) ==
    [f \in (DOMAIN item) \cup {"rank"} |-> IF f = "rank" THEN new_rank ELSE item[f]]

\* one iteration of the loop of lines 313-314: the write goes to the dict
\* the list holds, wherever that dict lives
OverlapReRank(c) ==
    LET fr   == frames[c]
        item == fr.kept[fr.next + 1]
    IN  /\ fr.pc = "rerank" /\ fr.next < Len(fr.kept)
        /\ frames' = [frames EXCEPT ![c] =
               [fr EXCEPT !.next = fr.next + 1,
                          !.raw = IF item.of = "result"
                                  THEN [fr.raw EXCEPT ![item.at] = SetRank(@, fr.next + 1)]
                                  ELSE fr.raw]]
        /\ documents' = IF item.of = "article"
                        THEN [documents EXCEPT ![item.at] = SetRank(@, fr.next + 1)]
                        ELSE documents
        /\ UNCHANGED <<bm_index, calls_done, overlapRest>>

\* lines 315-320: the loop is over; cut to over_k, and with nothing left
\* warn and go on to the unfiltered search of line 321
OverlapCut(c) ==
    LET fr == frames[c]
    IN  /\ fr.pc = "rerank" /\ fr.next = Len(fr.kept)
        /\ frames' = [frames EXCEPT ![c] =
               IF Take(fr.kept, fr.top_k * 3) = <<>>
               THEN [fr EXCEPT !.filtering = FALSE, !.pc = "search"]
               ELSE [fr EXCEPT !.cut = Take(fr.kept, fr.top_k * 3), !.pc = "enrich"]]
        /\ UNCHANGED <<documents, bm_index, calls_done, overlapRest>>

\* the dict a reference of the frame stands for
Deref(fr, ref) == IF ref.of = "result" THEN fr.raw[ref.at] ELSE documents[ref.at]

\* lines 324-342 (search_sparse: 256-274): articles_by_id is read from
\* bm25_index.documents anew and every result is copied into a new dict;
\* r["score"] raises KeyError on a dict without that key
OverlapEnrich(c) ==
    LET fr    == frames[c]
        items == [i \in 1..Len(fr.cut) |-> Deref(fr, fr.cut[i])]
    IN  /\ fr.pc = "enrich"
        /\ frames' = [frames EXCEPT ![c] =
               IF \E i \in 1..Len(items) : "score" \notin DOMAIN items[i]
               THEN [fr EXCEPT !.pc = "raised"]
               ELSE [fr EXCEPT !.sparse = Enrich(items, documents),
                               !.out = IF fr.kind = "sparse"
                                       THEN Enrich(items, documents) ELSE <<>>,
                               !.pc = IF fr.kind = "sparse" THEN "done" ELSE "fuse"]]
        /\ UNCHANGED <<documents, bm_index, calls_done, overlapRest>>

\* lines 344-357: fuse; then re-enter search_hybrid with where = None, in a
\* new frame whose return value is returned as it is, or return fused[:top_k]
OverlapFuse(c) ==
    LET fr == frames[c]
        fu == reciprocal_rank_fusion(FusionInput(fr.dense, fr.sparse), RRF_K)
    IN  /\ fr.pc = "fuse"
        /\ frames' = [frames EXCEPT ![c] =
               IF TopLevelRerun(fu, fr.where)
               THEN NewFrame("hybrid", fr.query, fr.top_k, NoWhere)
               ELSE [fr EXCEPT !.out = Take(fu, fr.top_k), !.pc = "done"]]
        /\ UNCHANGED <<documents, bm_index, calls_done, overlapRest>>

\* the query hands its outcome to caller c; its locals are dropped
OverlapReturn(c) ==
    /\ frames[c].pc \in {"done", "raised"}
    /\ frames' = [frames EXCEPT ![c] = IdleFrame]
    /\ calls_done' = calls_done + 1
    /\ UNCHANGED <<documents, bm_index, overlapRest>>

NextOverlap ==
    \E c \in Callers :
        \/ \E q \in OverlapHybridQueries, tk \in OverlapTopKs, w \in SessionWheres :
               OverlapCall(c, "hybrid", q, tk, w)
        \/ \E kind \in {"sparse", "bm25"}, q \in OverlapQueries, tk \in OverlapTopKs :
               OverlapCall(c, kind, q, tk, NoWhere)
        \/ \E has_data \in BOOLEAN : OverlapAttemptOk(c, has_data)
        \/ OverlapAttemptFail(c)
        \/ OverlapWake(c)
        \/ \E reply \in OverlapReplies(frames[c].top_k * 3) : OverlapDense(c, reply)
        \/ OverlapDenseFail(c)
        \/ \E reply \in OverlapReplies(frames[c].top_k * 3) : OverlapDenseRetry(c, reply)
        \/ OverlapDenseRetryFail(c)
        \/ OverlapSearch(c)
        \/ OverlapFilter(c)
        \/ OverlapReRank(c)
        \/ OverlapCut(c)
        \/ OverlapEnrich(c)
        \/ OverlapFuse(c)
        \/ OverlapReturn(c)

SpecOverlap == InitOverlap /\ [][NextOverlap]_vars

(***************************************************************************)
(* Claims about queries that share the index (SpecOverlap).                *)
(***************************************************************************)
\* the rank the dict raw[r] of a frame holds: the rank BM25Index.search
\* gave it, r, until an iteration i of the frame's own re-ranking loop has
\* written i to it
RankNow(fr, r) ==
    IF \E i \in 1..fr.next : fr.kept[i] = [of |-> "result", at |-> r]
    THEN CHOOSE i \in 1..fr.next : fr.kept[i] = [of |-> "result", at |-> r]
    ELSE r

\* C16: no query changes the shared index.  After any sequence or
\* interleaving of the steps of search_hybrid, search_sparse and
\* BM25Index.search calls (with the apply_filters and
\* reciprocal_rank_fusion calls they make), by callers that run at the same
\* time, the document list, the doc-id order and the scoring table of the
\* BM25Index are those of its construction; and the dicts a query got from
\* BM25Index.search hold the documents and scores of that search, with the
\* ranks of that search except where the query's own re-ranking loop has
\* written a new one: no re-ranking reaches a dict of the index or of
\* another query.
C16_IndexNeverMutated ==
    /\ documents = Corpus
    /\ bm_index = SessionIndex
    /\ \A c \in Callers :
          LET fr   == frames[c]
              made == BM25Index_search(SessionIndex, fr.query, fr.asked)[2]
          IN  /\ Len(fr.raw) = Len(made)
              /\ \A r \in 1..Len(fr.raw) :
                    /\ fr.raw[r].doc_id = made[r].doc_id
                    /\ fr.raw[r].score = made[r].score
                    /\ fr.raw[r].rank = RankNow(fr, r)

\* both callers are inside the re-ranking loop of a search_hybrid call on
\* "E-4012" filtered to region EU at once: the first has given the third
\* candidate rank 2 and not yet reached the fifth, the second has given the
\* seventh candidate rank 4 and not yet reached the ninth; the index is as
\* it was built
C16_Witness ==
    /\ frames[1].pc = "rerank" /\ frames[2].pc = "rerank"
    /\ frames[1].where = GivenWhere(BareLeaf("region", Str("EU")))
    /\ frames[2].where = GivenWhere(BareLeaf("region", Str("EU")))
    /\ frames[1].next = 2
    /\ frames[1].raw[3].doc_id = 3 /\ frames[1].raw[3].rank = 2
    /\ frames[1].raw[5].rank = 5
    /\ frames[2].next = 4
    /\ frames[2].raw[7].doc_id = 7 /\ frames[2].raw[7].rank = 4
    /\ frames[2].raw[9].rank = 9
    /\ documents = Corpus /\ bm_index = SessionIndex

====
